---- MODULE Spec2Model ----
(***************************************************************************)
(* Credential and token lifecycle of the auth service                      *)
(* (services/auth/app): login with brute-force lockout, refresh-token      *)
(* issuance, validation, rotation and revocation, access-token minting.    *)
(*                                                                         *)
(* The executable bodies of AuthService and TokenService are stubs; the    *)
(* model follows the reference implementation written at the same lines    *)
(* of those methods.  Every request runs in its own database session       *)
(* (database.py get_db), so a request is a process whose steps are its     *)
(* database statements; statements of different requests interleave.       *)
(***************************************************************************)
EXTENDS Integers, Sequences, FiniteSets, TLC

(* ---------------- configuration (app/config.py) ---------------- *)
MAX_LOGIN_ATTEMPTS == 5
LOGIN_LOCKOUT_MINUTES == 15
ACCESS_TOKEN_EXPIRE_MINUTES == 30
REFRESH_TOKEN_EXPIRE_DAYS == 7
SECRET_KEY == "CAMBIAR_ESTA_CLAVE"

(* the clock counts minutes; timedelta(days=d) is d * 24 * 60 minutes *)
RefreshTTL == REFRESH_TOKEN_EXPIRE_DAYS * 24 * 60

(* ---------------- bounds of the model ---------------- *)
MaxTicks == 1
MaxTokens == 3

Procs == {1, 2}
(* login requests name any of Emails and Passwords; registrations *)
(* are made for RegEmails with RegPasswords                       *)
Emails == {"a@x.com", "b@x.com"}
Passwords == {"Secret123", "Wrong456"}
RegEmails == {"a@x.com"}
RegPasswords == {"Secret123"}
NewPasswords == {"Newpass789"}
ResetPasswords == NewPasswords \cup {"Other0000"}
Salts == {"s1"}
(* passwords of 73 characters, within max_length = 100 of the schemas, *)
(* that differ in the last character only                              *)
Prefix72 == "Aa1xxxxxxxxxxxxxxxxxxxxxxxxxxxxxxxxxxxxxxxxxxxxxxxxxxxxxxxxxxxxxxxxxxxxx"
LongPasswords == {Prefix72 \o "y", Prefix72 \o "z"}
UtcOffsets == {0, 60}

(* registrations as they arrive, before validation: an email is the *)
(* sequence of its characters                                      *)
RawEmails == {<<"a", "@", "x">>, <<"A", "@", "x">>, <<"a", "@", "X">>,
              <<" ", "a", "@", "x">>}

NONE == -1

(* ---------------- schemas/auth.py: EmailStr ---------------- *)
(* str.strip and str.lower on a sequence of characters *)
RECURSIVE strip(_)
strip(s) ==
    IF s = <<>> THEN s
    ELSE IF Head(s) = " " THEN strip(Tail(s))
    ELSE IF s[Len(s)] = " " THEN strip(SubSeq(s, 1, Len(s) - 1))
    ELSE s

lower(s) ==
    [i \in DOMAIN s |-> IF s[i] = "A" THEN "a"
                        ELSE IF s[i] = "X" THEN "x"
                        ELSE s[i]]

(* pydantic EmailStr: the value is stripped, the local part is kept as *)
(* written and the domain, from the @ on, is lower-cased               *)
EmailStr(value) ==
    LET email == strip(value)
        at_index == CHOOSE i \in DOMAIN email : email[i] = "@"
    IN SubSeq(email, 1, at_index - 1) \o lower(SubSeq(email, at_index, Len(email)))

(* ---------------- utils/security.py ---------------- *)
(* passlib's bcrypt: the primitive reads the first 72 bytes of the *)
(* secret and ignores the rest                                     *)
BCRYPT_MAX_BYTES == 72

bcrypt_secret(password) ==
    IF Len(password) > BCRYPT_MAX_BYTES
    THEN SubSeq(password, 1, BCRYPT_MAX_BYTES)
    ELSE password

(* bcrypt digest: carries its salt; verify recomputes with that salt *)
hash_password(password, salt) ==
    [salt |-> salt, digest |-> <<salt, bcrypt_secret(password)>>]

verify_password(plain_password, hashed_password) ==
    hashed_password.digest = <<hashed_password.salt, bcrypt_secret(plain_password)>>

(* values of hashed_password that hash_password did not produce: None, *)
(* and strings that are no bcrypt digest                               *)
NoneDigest == [text |-> "None"]
MalformedDigests ==
    {NoneDigest, [text |-> ""], [text |-> "not-a-hash"], [text |-> "$2b$12$short"]}

(* CryptContext.verify before it compares: False for None, and for a  *)
(* string no scheme identifies or bcrypt cannot parse the ValueError  *)
(* it raises (UnknownHashError and MalformedHashError are ValueErrors); *)
(* "" when the digest is well formed                                  *)
pwd_context_verify_early(hash) ==
    IF "digest" \in DOMAIN hash THEN ""
    ELSE IF hash = NoneDigest THEN "False"
    ELSE "ValueError"

(* sha256 hex digest of a token: injective on the tokens of the model *)
hash_token(token) == <<"sha256", token>>

(* ---------------- HTTP results ---------------- *)
NoAccess == [sub |-> <<"str", 0>>, email |-> "", role |-> "", exp |-> NONE,
             iat |-> 0, type |-> "none", sig |-> ""]
NoResult == [status |-> 0, detail |-> "", access |-> NoAccess, refresh |-> 0]
Ok(access, refresh) ==
    [status |-> 200, detail |-> "", access |-> access, refresh |-> refresh]
Created == [status |-> 201, detail |-> "", access |-> NoAccess, refresh |-> 0]
HTTPException(status, detail) ==
    [status |-> status, detail |-> detail, access |-> NoAccess, refresh |-> 0]
InvalidCredentials == HTTPException(401, "Credenciales invalidas")
(* the three places where AuthService.login raises 401 *)
LoginUserNotFound_404 == HTTPException(404, "Usuario no encontrado")
LoginUserNotFound == HTTPException(401, "Credenciales invalidas")
LoginNoCredential == HTTPException(401, "Credenciales invalidas")
LoginWrongPassword == HTTPException(401, "Credenciales invalidas")
AccountLocked == HTTPException(403, "Usuario bloqueado temporalmente")
DuplicateAccount == HTTPException(400, "El email ya esta registrado")
PasswordsMismatch == HTTPException(400, "Las contrasenas no coinciden")
IntegrityError == HTTPException(500, "IntegrityError")
InvalidOrExpiredToken == HTTPException(401, "Token invalido o expirado")
AccountInactive == HTTPException(403, "Usuario inactivo")

(* what a function called directly returned, or the exception it raised *)
Returned(value) == [status |-> 0, detail |-> value, access |-> NoAccess, refresh |-> 0]
Raised(exception) ==
    [status |-> 500, detail |-> exception, access |-> NoAccess, refresh |-> 0]

NoTokenData == [sub |-> <<"str", 0>>, email |-> "", role |-> "", exp |-> NONE]

VARIABLES
    now,            \* datetime.utcnow(), in minutes
    ticks,          \* number of clock advances so far
    users,          \* table users: sequence of rows, id = index
    credentials,    \* table user_credentials: sequence of rows
    refresh_tokens, \* table refresh_tokens: sequence of rows; the plaintext
                    \* of row k is the k-th value drawn from secrets
    pc,             \* position of each request
    loc,            \* session-local data of each request
    resp,           \* the response sent last: the operation and its result
    decoded,        \* the token decode_access_token was given last and
                    \* the TokenData it returned
    hist,           \* observations used by the properties only
    purpose_tokens, \* the verify and reset tokens minted so far, as the
                    \* notification collaborator and the clients hold them
    consumed        \* the reset tokens a password reset has used up

vars == <<now, ticks, users, credentials, refresh_tokens, pc, loc, resp,
          decoded, hist, purpose_tokens, consumed>>

NoLoc == [email |-> "", password |-> "", user |-> 0,
          failed |-> 0, locked |-> NONE, token |-> 0, newtoken |-> 0,
          hashed |-> hash_password("", "s1")]

(* hist.fails[u]     wrong-password failures written for u since the last *)
(*                   successful login of u                                *)
(* hist.lockedAt[u]  clock value of the latest such failure that was the  *)
(*                   MAX_LOGIN_ATTEMPTS-th in a row or a later one        *)
(* hist.owner[k], hist.issuedAt[k], hist.parent[k]  account, issue time   *)
(*                   and rotated-from token (0: a login) of token k       *)
(* hist.revoked[k]   the first revoking statement aimed at token k        *)
(*                   ("logout", "rotate", "all"), "" when there was none  *)
(* hist.returned[k]  the number of responses that carried the plaintext  *)
(*                   of token k                                           *)
(* hist.access       the access token minted last, with its inputs and    *)
(*                   the time of minting                                  *)
(* hist.password[u]  the password of u: the one registered, then the one  *)
(*                   a password reset set                                 *)
(* hist.case         the branch that produced the response sent last      *)
NoMinted == [token |-> NoAccess, id |-> 0, email |-> "", role |-> "", at |-> NONE]
NoHist == [fails |-> <<>>, lockedAt |-> <<>>, password |-> <<>>,
           owner |-> <<>>, issuedAt |-> <<>>, parent |-> <<>>,
           revoked |-> <<>>, returned |-> <<>>, access |-> NoMinted,
           case |-> ""]

Init ==
    /\ now = 0
    /\ ticks = 0
    /\ users = <<>>
    /\ credentials = <<>>
    /\ refresh_tokens = <<>>
    /\ pc = [p \in Procs |-> "idle"]
    /\ loc = [p \in Procs |-> NoLoc]
    /\ resp = [op |-> "", result |-> NoResult]
    /\ decoded = [token |-> NoAccess, token_data |-> NoTokenData,
                  called |-> FALSE]
    /\ hist = NoHist
    /\ purpose_tokens = <<>>
    /\ consumed = {}

(* ---------------- queries ---------------- *)
Range(f) == {f[i] : i \in DOMAIN f}

(* AuthService._get_user_by_email: id of the row, 0 for None *)
_get_user_by_email(email) ==
    IF \E i \in DOMAIN users : users[i].email = email
    THEN CHOOSE i \in DOMAIN users : users[i].email = email
    ELSE 0

(* AuthService._get_local_credential: index of the row, 0 for None *)
_get_local_credential(user_id) ==
    IF \E i \in DOMAIN credentials :
          credentials[i].user_id = user_id /\ credentials[i].provider = "local"
    THEN CHOOSE i \in DOMAIN credentials :
          credentials[i].user_id = user_id /\ credentials[i].provider = "local"
    ELSE 0

_is_user_locked_reversed(locked_until, t) ==
    IF locked_until = NONE THEN FALSE ELSE t > locked_until

(* AuthService._is_user_locked, on the locked_until the session loaded *)
_is_user_locked(locked_until, t) ==
    IF locked_until = NONE THEN FALSE ELSE t < locked_until

validate_refresh_token_no_expiry(token, t) ==
    LET rows == {i \in DOMAIN refresh_tokens :
                    /\ refresh_tokens[i].token_hash = hash_token(token)
                    /\ refresh_tokens[i].revoked = FALSE}
    IN IF rows = {} THEN 0 ELSE refresh_tokens[CHOOSE i \in rows : TRUE].user_id

(* TokenService.validate_refresh_token: user_id, 0 for None *)
validate_refresh_token(token, t) ==
    LET rows == {i \in DOMAIN refresh_tokens :
                    /\ refresh_tokens[i].token_hash = hash_token(token)
                    /\ refresh_tokens[i].revoked = FALSE
                    /\ refresh_tokens[i].expires_at > t}
    IN IF rows = {} THEN 0 ELSE refresh_tokens[CHOOSE i \in rows : TRUE].user_id

revoke_refresh_token_no_update(token) == refresh_tokens

revoke_refresh_token_toggles(token) ==
    [i \in DOMAIN refresh_tokens |->
        IF refresh_tokens[i].token_hash = hash_token(token)
        THEN [refresh_tokens[i] EXCEPT !.revoked = ~@]
        ELSE refresh_tokens[i]]

revoke_refresh_token_unrevokes(token) ==
    [i \in DOMAIN refresh_tokens |->
        IF refresh_tokens[i].token_hash = hash_token(token)
        THEN [refresh_tokens[i] EXCEPT !.revoked = FALSE]
        ELSE refresh_tokens[i]]

(* models/user.py RefreshToken.is_valid, on a row of refresh_tokens *)
is_valid(self, t) ==
    IF self.revoked THEN FALSE
    ELSE IF t > self.expires_at THEN FALSE
    ELSE TRUE

(* TokenService.revoke_refresh_token: the table after the UPDATE *)
revoke_refresh_token(token) ==
    [i \in DOMAIN refresh_tokens |->
        IF refresh_tokens[i].token_hash = hash_token(token)
        THEN [refresh_tokens[i] EXCEPT !.revoked = TRUE]
        ELSE refresh_tokens[i]]

(* result.rowcount of that UPDATE: the rows its WHERE clause matched *)
revoke_refresh_token_rowcount(token) ==
    Cardinality({i \in DOMAIN refresh_tokens :
                    refresh_tokens[i].token_hash = hash_token(token)})

revoke_all_user_tokens_latest_only(user_id) ==
    [i \in DOMAIN refresh_tokens |->
        IF /\ refresh_tokens[i].user_id = user_id
           /\ refresh_tokens[i].revoked = FALSE
           /\ i = Len(refresh_tokens)
        THEN [refresh_tokens[i] EXCEPT !.revoked = TRUE]
        ELSE refresh_tokens[i]]

(* TokenService.revoke_all_user_tokens: the table after the UPDATE *)
revoke_all_user_tokens(user_id) ==
    [i \in DOMAIN refresh_tokens |->
        IF refresh_tokens[i].user_id = user_id /\ refresh_tokens[i].revoked = FALSE
        THEN [refresh_tokens[i] EXCEPT !.revoked = TRUE]
        ELSE refresh_tokens[i]]

create_refresh_token_stores_plaintext(user_id, token, t) ==
    [user_id |-> user_id, token_hash |-> <<"plaintext", token>>,
     expires_at |-> t + RefreshTTL, revoked |-> FALSE]

(* TokenService.create_refresh_token: the row it inserts *)
create_refresh_token(user_id, token, t) ==
    [user_id |-> user_id, token_hash |-> hash_token(token),
     expires_at |-> t + RefreshTTL, revoked |-> FALSE]

(* TokenService.create_access_token: jwt.encode of the payload *)
create_access_token(user, t) ==
    [sub |-> <<"str", user.id>>, email |-> user.email, role |-> user.role,
     exp |-> t + ACCESS_TOKEN_EXPIRE_MINUTES, iat |-> t, type |-> "access",
     sig |-> SECRET_KEY]

jwt_decode_ok_no_exp(token, t) == token.sig = SECRET_KEY

(* jose jwt.decode: signature, then exp (rejects once exp < now) *)
jwt_decode_ok(token, t) == token.sig = SECRET_KEY /\ ~(token.exp < t)

(* payload.get(key): none, standing for None, for a claim the payload *)
(* does not carry                                                     *)
PayloadGet(payload, key, none) ==
    IF key \in DOMAIN payload THEN payload[key] ELSE none

decode_access_token_checks_store(token, t, utc_offset) ==
    IF ~jwt_decode_ok(token, t) THEN NoTokenData
    ELSE IF PayloadGet(token, "type", "None") # "access" THEN NoTokenData
    ELSE IF ~\E k \in DOMAIN refresh_tokens :
               /\ <<"str", refresh_tokens[k].user_id>> = token.sub
               /\ ~refresh_tokens[k].revoked
    THEN NoTokenData
    ELSE [sub |-> PayloadGet(token, "sub", <<"None", 0>>),
          email |-> PayloadGet(token, "email", "None"),
          role |-> PayloadGet(token, "role", "None"),
          exp |-> token.exp + utc_offset]

decode_access_token_no_type(token, t, utc_offset) ==
    IF ~jwt_decode_ok(token, t) THEN NoTokenData
    ELSE [sub |-> PayloadGet(token, "sub", <<"None", 0>>),
          email |-> PayloadGet(token, "email", "None"),
          role |-> PayloadGet(token, "role", "None"),
          exp |-> token.exp + utc_offset]

(* TokenService.decode_access_token: TokenData, NoTokenData for None;  *)
(* exp comes back through datetime.fromtimestamp, that is in the local *)
(* time of the host, utc_offset minutes away from the utcnow() minted  *)
decode_access_token(token, t, utc_offset) ==
    IF ~jwt_decode_ok(token, t) THEN NoTokenData
    ELSE IF PayloadGet(token, "type", "None") # "access" THEN NoTokenData
    ELSE [sub |-> PayloadGet(token, "sub", <<"None", 0>>),
          email |-> PayloadGet(token, "email", "None"),
          role |-> PayloadGet(token, "role", "None"),
          exp |-> token.exp + utc_offset]

(* ---- purpose tokens (TokenService, tokens de proposito especial) ---- *)
VERIFY_TOKEN_MINUTES == 24 * 60
RESET_TOKEN_MINUTES == 60

(* TokenService.create_verification_token *)
create_verification_token(user_id, t) ==
    [sub |-> <<"str", user_id>>, purpose |-> "verify",
     exp |-> t + VERIFY_TOKEN_MINUTES, iat |-> t, sig |-> SECRET_KEY]

(* TokenService.create_reset_token *)
create_reset_token(user_id, t) ==
    [sub |-> <<"str", user_id>>, purpose |-> "reset",
     exp |-> t + RESET_TOKEN_MINUTES, iat |-> t, sig |-> SECRET_KEY]

(* UUID(s): the id whose str() is s; 0 stands for the ValueError *)
UUID(s) == IF s[1] = "str" THEN s[2] ELSE 0

decode_special_token_any_purpose(token, expected_purpose, t) ==
    IF ~jwt_decode_ok(token, t) THEN 0
    ELSE UUID(PayloadGet(token, "sub", <<"None", 0>>))

decode_special_token_unverified(token, expected_purpose, t) ==
    IF PayloadGet(token, "purpose", "None") # expected_purpose THEN 0
    ELSE UUID(PayloadGet(token, "sub", <<"None", 0>>))

(* TokenService.decode_special_token: user_id, 0 for None *)
decode_special_token(token, expected_purpose, t) ==
    IF ~jwt_decode_ok(token, t) THEN 0
    ELSE IF PayloadGet(token, "purpose", "None") # expected_purpose THEN 0
    ELSE UUID(PayloadGet(token, "sub", <<"None", 0>>))

(* ---------------- the clock ---------------- *)
(* the instants around which a comparison with the clock changes: a   *)
(* lock and a refresh token end when the clock reaches the deadline,  *)
(* an access token once the clock has passed it                       *)
(* a purpose token ends, like an access token, once the clock has *)
(* passed its exp                                                 *)
PurposeInstants ==
    {purpose_tokens[i].exp + k : i \in DOMAIN purpose_tokens, k \in {-1, 0, 1}}

Instants ==
    {users[i].locked_until + k : i \in DOMAIN users, k \in {-1, 0}}
    \cup {refresh_tokens[i].expires_at + k : i \in DOMAIN refresh_tokens,
                                             k \in {-1, 0}}
    \cup {hist.access.token.exp + k : k \in {-1, 0, 1}}
    \cup PurposeInstants

(* time passes between any two statements: the clock moves to one of *)
(* the coming instants, or by a minute when none is coming           *)
TickTo(instants) ==
    /\ ticks < MaxTicks
    /\ LET coming == {t \in instants : t > now} IN
       \E t \in (IF coming = {} THEN {now + 1} ELSE coming) : now' = t
    /\ ticks' = ticks + 1
    /\ UNCHANGED <<users, credentials, refresh_tokens, pc, loc, resp, decoded, hist,
                   purpose_tokens, consumed>>

Tick == TickTo(Instants)

(* the clock as the purpose tokens see it *)
TickPurpose == TickTo(PurposeInstants)

(* the clock as the access token minted last sees it *)
TickAccess == TickTo({hist.access.token.exp + k : k \in {-1, 0, 1}})

(* ---------------- requests ---------------- *)
(* the refresh tokens a client can present: those a response carried, *)
(* and 0, a string that was never issued                              *)
Presentable ==
    {0} \cup {k \in DOMAIN refresh_tokens :
                 ~\E p \in Procs : pc[p] = "refresh_account" /\ loc[p].newtoken = k}
TokenIds == 0 .. MaxTokens
UserIds == 1 .. Cardinality(RegEmails)

Idle(p) == pc[p] = "idle"

(* a new request takes the first free session *)
Free(p) == Idle(p) /\ \A q \in Procs : q < p => ~Idle(q)

(* requests that may still insert a refresh token *)
Issuing == {p \in Procs : pc[p] \in {"login_cred", "login_failed", "login_ok",
                "login_issue", "refresh_revoke", "refresh_issue"}}

(* the request ends: its session is closed and the response is sent *)
Finish(p, op, result) ==
    /\ pc' = [pc EXCEPT ![p] = "idle"]
    /\ loc' = [loc EXCEPT ![p] = NoLoc]
    /\ resp' = [op |-> op, result |-> result]

Case(c) == [hist EXCEPT !.case = c]
First(old, statement) == IF old = "" THEN statement ELSE old

(* ---- AuthService.register ---- *)
(* step 1-3: the duplicate check, the password_confirm check, the hash *)
RegisterStart(p, email, password, password_confirm, salt) ==
    /\ Free(p)
    /\ IF _get_user_by_email(email) # 0
       THEN Finish(p, "register", DuplicateAccount) /\ hist' = Case("duplicate")
       ELSE IF password # password_confirm
       THEN Finish(p, "register", PasswordsMismatch) /\ hist' = Case("mismatch")
       ELSE /\ pc' = [pc EXCEPT ![p] = "register_commit"]
            /\ loc' = [loc EXCEPT ![p] = [NoLoc EXCEPT
                          !.email = email, !.password = password,
                          !.hashed = hash_password(password, salt)]]
            /\ UNCHANGED <<resp, hist>>
    /\ UNCHANGED <<now, ticks, users, credentials, refresh_tokens, decoded,
                   purpose_tokens, consumed>>

RegisterCommit_attaches_credential(p) ==
    /\ pc[p] = "register_commit"
    /\ LET found == _get_user_by_email(loc[p].email)
           id == IF found # 0 THEN found ELSE Len(users) + 1 IN
       /\ users' = IF found # 0 THEN users
                   ELSE Append(users, [id |-> id, email |-> loc[p].email,
                          is_active |-> TRUE, is_verified |-> FALSE,
                          role |-> "customer", failed_login_attempts |-> 0,
                          locked_until |-> NONE])
       /\ credentials' = Append(credentials, [user_id |-> id,
                          provider |-> "local", hashed_password |-> loc[p].hashed])
       /\ hist' = IF found # 0 THEN Case("created")
                  ELSE [hist EXCEPT !.fails = Append(@, 0),
                                    !.lockedAt = Append(@, NONE),
                                    !.password = Append(@, loc[p].password),
                                    !.case = "created"]
    /\ Finish(p, "register", Created)
    /\ UNCHANGED <<now, ticks, refresh_tokens, decoded,
                   purpose_tokens, consumed>>

(* step 4-5: INSERT of the user and of its LOCAL credential, one commit; *)
(* the unique index on users.email rejects a row that lost the race     *)
RegisterCommit(p) ==
    /\ pc[p] = "register_commit"
    /\ IF _get_user_by_email(loc[p].email) # 0
       THEN /\ Finish(p, "register", IntegrityError)
            /\ hist' = Case("integrity")
            /\ UNCHANGED <<users, credentials>>
       ELSE LET id == Len(users) + 1 IN
            /\ users' = Append(users, [id |-> id, email |-> loc[p].email,
                          is_active |-> TRUE, is_verified |-> FALSE,
                          role |-> "customer", failed_login_attempts |-> 0,
                          locked_until |-> NONE])
            /\ credentials' = Append(credentials, [user_id |-> id,
                          provider |-> "local", hashed_password |-> loc[p].hashed])
            /\ hist' = [hist EXCEPT !.fails = Append(@, 0),
                                    !.lockedAt = Append(@, NONE),
                                    !.password = Append(@, loc[p].password),
                                    !.case = "created"]
            /\ Finish(p, "register", Created)
    /\ UNCHANGED <<now, ticks, refresh_tokens, decoded,
                   purpose_tokens, consumed>>

(* ---- an account that signs in through an OAuth provider: a user row ---- *)
(* ---- and a credential of that provider, no LOCAL credential         ---- *)
OAuthProviders == {"google", "facebook"}

OAuthRegister(p, email, provider) ==
    /\ Free(p)
    /\ _get_user_by_email(email) = 0
    /\ LET id == Len(users) + 1 IN
       /\ users' = Append(users, [id |-> id, email |-> email,
                     is_active |-> TRUE, is_verified |-> FALSE,
                     role |-> "customer", failed_login_attempts |-> 0,
                     locked_until |-> NONE])
       /\ credentials' = Append(credentials, [user_id |-> id,
                     provider |-> provider, hashed_password |-> NoneDigest])
       /\ hist' = [hist EXCEPT !.fails = Append(@, 0),
                               !.lockedAt = Append(@, NONE),
                               !.password = Append(@, ""),
                               !.case = "oauth_created"]
    /\ resp' = [op |-> "oauth", result |-> Created]
    /\ UNCHANGED <<now, ticks, refresh_tokens, pc, loc, decoded,
                   purpose_tokens, consumed>>

(* ---- AuthService.login ---- *)
LoginStart_requires_verified(p, email, password) ==
    /\ Free(p)
    /\ _get_user_by_email(email) # 0
    /\ ~users[_get_user_by_email(email)].is_verified
    /\ Finish(p, "login", HTTPException(403, "Email no verificado"))
    /\ hist' = Case("unverified")
    /\ UNCHANGED <<now, ticks, users, credentials, refresh_tokens, decoded,
                   purpose_tokens, consumed>>

(* step 1-2: SELECT of the user, then the lock check on the loaded row *)
LoginStart_counts_locked(p, email, password) ==
    /\ Free(p)
    /\ Len(refresh_tokens) + Cardinality(Issuing) < MaxTokens
    /\ LET id == _get_user_by_email(email) IN
       IF id = 0
       THEN /\ Finish(p, "login", LoginUserNotFound) /\ hist' = Case("no_user")
            /\ UNCHANGED users
       ELSE IF _is_user_locked(users[id].locked_until, now)
       THEN /\ Finish(p, "login", AccountLocked)
            /\ users' = [users EXCEPT
                            ![id].failed_login_attempts = @ + 1,
                            ![id].locked_until = now + LOGIN_LOCKOUT_MINUTES]
            /\ hist' = Case(IF password = hist.password[id]
                            THEN "locked_right_password" ELSE "locked")
       ELSE /\ pc' = [pc EXCEPT ![p] = "login_cred"]
            /\ loc' = [loc EXCEPT ![p] = [NoLoc EXCEPT
                          !.email = email, !.password = password, !.user = id,
                          !.failed = users[id].failed_login_attempts,
                          !.locked = users[id].locked_until]]
            /\ UNCHANGED <<resp, hist, users>>
    /\ UNCHANGED <<now, ticks, credentials, refresh_tokens, decoded,
                   purpose_tokens, consumed>>

LoginStart(p, email, password) ==
    /\ Free(p)
    /\ Len(refresh_tokens) + Cardinality(Issuing) < MaxTokens
    /\ LET id == _get_user_by_email(email) IN
       IF id = 0
       THEN Finish(p, "login", LoginUserNotFound) /\ hist' = Case("no_user")
       ELSE IF _is_user_locked(users[id].locked_until, now)
       THEN /\ Finish(p, "login", AccountLocked)
            /\ hist' = Case(IF password = hist.password[id]
                            THEN "locked_right_password" ELSE "locked")
       ELSE /\ pc' = [pc EXCEPT ![p] = "login_cred"]
            /\ loc' = [loc EXCEPT ![p] = [NoLoc EXCEPT
                          !.email = email, !.password = password, !.user = id,
                          !.failed = users[id].failed_login_attempts,
                          !.locked = users[id].locked_until]]
            /\ UNCHANGED <<resp, hist>>
    /\ UNCHANGED <<now, ticks, users, credentials, refresh_tokens, decoded,
                   purpose_tokens, consumed>>

LoginCredential_counts_failure(p) ==
    /\ pc[p] = "login_cred"
    /\ pc' = [pc EXCEPT ![p] =
                 IF _get_local_credential(loc[p].user) = 0 THEN "login_failed"
                 ELSE IF verify_password(loc[p].password,
                            credentials[_get_local_credential(loc[p].user)]
                               .hashed_password)
                 THEN "login_ok" ELSE "login_failed"]
    /\ UNCHANGED <<now, ticks, users, credentials, refresh_tokens, loc, resp,
                   decoded, hist, purpose_tokens, consumed>>

(* step 3-4: SELECT of the LOCAL credential, then verify_password *)
LoginCredential(p) ==
    /\ pc[p] = "login_cred"
    /\ LET c == _get_local_credential(loc[p].user) IN
       IF c = 0
       THEN Finish(p, "login", LoginNoCredential) /\ hist' = Case("no_credential")
       ELSE IF ~verify_password(loc[p].password, credentials[c].hashed_password)
       THEN /\ pc' = [pc EXCEPT ![p] = "login_failed"]
            /\ UNCHANGED <<loc, resp, hist>>
       ELSE /\ pc' = [pc EXCEPT ![p] = "login_ok"]
            /\ UNCHANGED <<loc, resp, hist>>
    /\ UNCHANGED <<now, ticks, users, credentials, refresh_tokens, decoded,
                   purpose_tokens, consumed>>

_handle_failed_login_restarts(row, failed, t) ==
    IF row.locked_until # NONE /\ t >= row.locked_until
    THEN [row EXCEPT !.failed_login_attempts = 1, !.locked_until = NONE]
    ELSE IF failed + 1 >= MAX_LOGIN_ATTEMPTS
    THEN [row EXCEPT !.failed_login_attempts = failed + 1,
                     !.locked_until = t + LOGIN_LOCKOUT_MINUTES]
    ELSE [row EXCEPT !.failed_login_attempts = failed + 1]

_handle_failed_login_past_limit(row, failed, t) ==
    IF failed + 1 > MAX_LOGIN_ATTEMPTS
    THEN [row EXCEPT !.failed_login_attempts = failed + 1,
                     !.locked_until = t + LOGIN_LOCKOUT_MINUTES]
    ELSE [row EXCEPT !.failed_login_attempts = failed + 1]

(* AuthService._handle_failed_login: the columns the commit writes, *)
(* computed from the row the session loaded                         *)
_handle_failed_login(row, failed, t) ==
    IF failed + 1 >= MAX_LOGIN_ATTEMPTS
    THEN [row EXCEPT !.failed_login_attempts = failed + 1,
                     !.locked_until = t + LOGIN_LOCKOUT_MINUTES]
    ELSE [row EXCEPT !.failed_login_attempts = failed + 1]

LoginFailed(p) ==
    /\ pc[p] = "login_failed"
    /\ LET u == loc[p].user IN
       /\ users' = [users EXCEPT ![u] = _handle_failed_login(@, loc[p].failed, now)]
       /\ hist' = [hist EXCEPT
                      !.fails[u] = @ + 1,
                      !.lockedAt[u] = IF hist.fails[u] + 1 >= MAX_LOGIN_ATTEMPTS
                                      THEN now ELSE @,
                      !.case = "wrong_password"]
    /\ Finish(p, "login", LoginWrongPassword)
    /\ UNCHANGED <<now, ticks, credentials, refresh_tokens, decoded,
                   purpose_tokens, consumed>>

_handle_successful_login_keeps_lock(row, failed, locked) ==
    [row EXCEPT !.failed_login_attempts = 0]

(* AuthService._handle_successful_login: the session flushes only the *)
(* attributes whose new value differs from the loaded one             *)
_handle_successful_login(row, failed, locked) ==
    [row EXCEPT
       !.failed_login_attempts = IF failed # 0 THEN 0 ELSE @,
       !.locked_until = IF locked # NONE THEN NONE ELSE @]

LoginSucceeded(p) ==
    /\ pc[p] = "login_ok"
    /\ LET u == loc[p].user IN
       /\ users' = [users EXCEPT
                      ![u] = _handle_successful_login(@, loc[p].failed, loc[p].locked)]
       /\ hist' = [hist EXCEPT !.fails[u] = 0]
    /\ pc' = [pc EXCEPT ![p] = "login_issue"]
    /\ UNCHANGED <<now, ticks, credentials, refresh_tokens, loc, resp, decoded,
                   purpose_tokens, consumed>>

Minted(access, row) ==
    [token |-> access, id |-> row.id, email |-> row.email, role |-> row.role,
     at |-> now]

(* step 6: create_access_token, then create_refresh_token and its INSERT *)
LoginIssue(p) ==
    /\ pc[p] = "login_issue"
    /\ LET u == loc[p].user
           token == Len(refresh_tokens) + 1
           access == create_access_token(users[u], now) IN
       /\ refresh_tokens' = Append(refresh_tokens, create_refresh_token(u, token, now))
       /\ hist' = [hist EXCEPT !.owner = Append(@, u), !.issuedAt = Append(@, now),
                               !.parent = Append(@, 0), !.revoked = Append(@, ""),
                               !.returned = Append(@, 1),
                               !.access = Minted(access, users[u]),
                               !.case = IF loc[p].locked # NONE
                                        THEN "login_ok_after_lock"
                                        ELSE "login_ok"]
       /\ Finish(p, "login", Ok(access, token))
    /\ UNCHANGED <<now, ticks, users, credentials, decoded,
                   purpose_tokens, consumed>>

(* ---- refresh: rotate, then the account check and the new access token ---- *)
(* rotate, statement 1: validate_refresh_token *)
RefreshStart(p, token) ==
    /\ Free(p)
    /\ token \in Presentable
    /\ Len(refresh_tokens) + Cardinality(Issuing) < MaxTokens
    /\ LET id == validate_refresh_token(token, now) IN
       IF id = 0
       THEN Finish(p, "refresh", InvalidOrExpiredToken) /\ hist' = Case("bad_token")
       ELSE /\ pc' = [pc EXCEPT ![p] = "refresh_revoke"]
            /\ loc' = [loc EXCEPT ![p] = [NoLoc EXCEPT !.token = token, !.user = id]]
            /\ UNCHANGED <<resp, hist>>
    /\ UNCHANGED <<now, ticks, users, credentials, refresh_tokens, decoded,
                   purpose_tokens, consumed>>

(* rotate, statement 2: revoke_refresh_token of the old token, committed *)
RefreshRevoke(p) ==
    /\ pc[p] = "refresh_revoke"
    /\ refresh_tokens' = revoke_refresh_token(loc[p].token)
    /\ hist' = [hist EXCEPT !.revoked[loc[p].token] = First(@, "rotate")]
    /\ pc' = [pc EXCEPT ![p] = "refresh_issue"]
    /\ UNCHANGED <<now, ticks, users, credentials, loc, resp, decoded,
                   purpose_tokens, consumed>>

(* rotate, statement 3: create_refresh_token for the same account *)
RefreshIssue(p) ==
    /\ pc[p] = "refresh_issue"
    /\ LET token == Len(refresh_tokens) + 1 IN
       /\ refresh_tokens' = Append(refresh_tokens,
                                   create_refresh_token(loc[p].user, token, now))
       /\ hist' = [hist EXCEPT !.owner = Append(@, loc[p].user),
                               !.issuedAt = Append(@, now),
                               !.parent = Append(@, loc[p].token),
                               !.revoked = Append(@, ""),
                               !.returned = Append(@, 0)]
       /\ loc' = [loc EXCEPT ![p].newtoken = token]
    /\ pc' = [pc EXCEPT ![p] = "refresh_account"]
    /\ UNCHANGED <<now, ticks, users, credentials, resp, decoded,
                   purpose_tokens, consumed>>

RefreshAccount_ignores_active(p) ==
    /\ pc[p] = "refresh_account"
    /\ LET u == loc[p].user
           access == create_access_token(users[u], now) IN
       /\ Finish(p, "refresh", Ok(access, loc[p].newtoken))
       /\ hist' = [hist EXCEPT !.access = Minted(access, users[u]),
                               !.returned[loc[p].newtoken] = @ + 1,
                               !.case = "refresh_ok"]
    /\ UNCHANGED <<now, ticks, users, credentials, refresh_tokens, decoded,
                   purpose_tokens, consumed>>

(* the account must still be active; then the new access token *)
RefreshAccount(p) ==
    /\ pc[p] = "refresh_account"
    /\ LET u == loc[p].user IN
       IF ~users[u].is_active
       THEN /\ Finish(p, "refresh", AccountInactive)
            /\ hist' = Case("inactive")
       ELSE LET access == create_access_token(users[u], now) IN
            /\ Finish(p, "refresh", Ok(access, loc[p].newtoken))
            /\ hist' = [hist EXCEPT !.access = Minted(access, users[u]),
                                    !.returned[loc[p].newtoken] = @ + 1,
                                    !.case = "refresh_ok"]
    /\ UNCHANGED <<now, ticks, users, credentials, refresh_tokens, decoded,
                   purpose_tokens, consumed>>

(* ---- AuthService.logout: revoke_refresh_token, one UPDATE ---- *)
Logout(p, token) ==
    /\ Free(p)
    /\ token \in Presentable
    /\ refresh_tokens' = revoke_refresh_token(token)
    /\ hist' = IF token \in DOMAIN refresh_tokens
               THEN [hist EXCEPT !.revoked[token] = First(@, "logout"),
                                 !.case = IF hist.revoked[token] = "logout"
                                          THEN "logout_again" ELSE "logout"]
               ELSE Case("logout_unknown")
    /\ resp' = [op |-> "logout", result |-> Ok(NoAccess, 0)]
    /\ UNCHANGED <<now, ticks, users, credentials, pc, loc, decoded,
                   purpose_tokens, consumed>>

(* ---- TokenService.revoke_refresh_token called for its result ---- *)
RevokeRefreshToken(p, token) ==
    /\ Free(p)
    /\ token \in Presentable
    /\ refresh_tokens' = revoke_refresh_token(token)
    /\ resp' = [op |-> "revoke_refresh_token",
                result |-> IF revoke_refresh_token_rowcount(token) > 0
                           THEN Returned("True") ELSE Returned("False")]
    /\ hist' = IF token \in DOMAIN refresh_tokens
               THEN [hist EXCEPT !.revoked[token] = First(@, "revoke"),
                                 !.case = IF hist.revoked[token] # ""
                                          THEN "revoke_again"
                                          ELSE IF refresh_tokens[token].expires_at > now
                                          THEN "revoke" ELSE "revoke_expired"]
               ELSE Case("revoke_unknown")
    /\ UNCHANGED <<now, ticks, users, credentials, pc, loc, decoded,
                   purpose_tokens, consumed>>

(* ---- TokenService.revoke_all_user_tokens, one UPDATE ---- *)
RevokeAll(p, user_id) ==
    /\ Free(p)
    /\ user_id \in DOMAIN users
    /\ refresh_tokens' = revoke_all_user_tokens(user_id)
    /\ hist' = [hist EXCEPT !.revoked = [k \in DOMAIN @ |->
                   IF hist.owner[k] = user_id
                   THEN First(@[k], "all") ELSE @[k]],
                            !.case = "revoke_all"]
    /\ resp' = [op |-> "revoke_all", result |-> Ok(NoAccess, 0)]
    /\ UNCHANGED <<now, ticks, users, credentials, pc, loc, decoded,
                   purpose_tokens, consumed>>

(* at most this many purpose tokens are minted *)
MaxPurposeTokens == MaxTokens - 1

(* ---- the signed tokens a client can present ---- *)
(* 1 .. : the purpose tokens minted, in the order of minting; 0: the  *)
(* access token minted last; -1: a reset token an attacker wrote      *)
(* without the signing key                                            *)
OfferIds == -1 .. MaxPurposeTokens

Offered(i) ==
    IF i \in DOMAIN purpose_tokens THEN purpose_tokens[i]
    ELSE IF i = 0 THEN hist.access.token
    ELSE [create_reset_token(1, now) EXCEPT !.sig = "forged"]

CanOffer(i) ==
    \/ i \in DOMAIN purpose_tokens
    \/ i = 0 /\ hist.access.id # 0
    \/ i = -1

(* ---- TokenService.decode_access_token on a token a client holds ---- *)
DecodeAccess(i) ==
    /\ CanOffer(i)
    /\ \E utc_offset \in UtcOffsets :
          decoded' = [token |-> Offered(i),
                      token_data |->
                         decode_access_token(Offered(i), now, utc_offset),
                      called |-> TRUE]
    /\ UNCHANGED <<now, ticks, users, credentials, refresh_tokens, pc, loc, resp,
                   hist, purpose_tokens, consumed>>

(* ---- an account is deactivated (User.is_active set to False) ---- *)
Deactivate(user_id) ==
    /\ user_id \in DOMAIN users
    /\ users[user_id].is_active
    /\ users' = [users EXCEPT ![user_id].is_active = FALSE]
    /\ UNCHANGED <<now, ticks, credentials, refresh_tokens, pc, loc, resp,
                   decoded, hist, purpose_tokens, consumed>>

(* a purpose token leaves the service: the same payload minted again *)
(* is the same token                                                 *)
Mint(token) ==
    IF token \in Range(purpose_tokens) THEN purpose_tokens
    ELSE Append(purpose_tokens, token)

(* ---- POST /password/reset and AuthService.request_password_reset ---- *)
(* the router answers the same message whatever the service did *)
ResetRequested ==
    [status |-> 200, detail |-> "Si el email existe, recibiras instrucciones",
     access |-> NoAccess, refresh |-> 0]

(* the notification sender is fire and forget: what the request does *)
(* next is the same whether the message was delivered or not         *)
_send_reset_email(delivered) ==
    IF delivered THEN "reset_requested" ELSE "reset_send_failed"

RequestPasswordReset_reveals(p, email, delivered) ==
    /\ Free(p)
    /\ _get_user_by_email(email) = 0
    /\ resp' = [op |-> "request_password_reset",
                result |-> HTTPException(404, "Usuario no encontrado")]
    /\ hist' = Case("reset_no_user")
    /\ UNCHANGED <<now, ticks, users, credentials, refresh_tokens, pc, loc,
                   decoded, purpose_tokens, consumed>>

RequestPasswordReset(p, email, delivered) ==
    /\ Free(p)
    /\ Len(purpose_tokens) < MaxPurposeTokens
    /\ LET user == _get_user_by_email(email) IN
       IF user = 0
       THEN /\ purpose_tokens' = purpose_tokens
            /\ hist' = Case("reset_no_user")
       ELSE /\ purpose_tokens' = Mint(create_reset_token(users[user].id, now))
            /\ hist' = Case(_send_reset_email(delivered))
    /\ resp' = [op |-> "request_password_reset", result |-> ResetRequested]
    /\ UNCHANGED <<now, ticks, users, credentials, refresh_tokens, pc, loc,
                   decoded, consumed>>

(* why a signed token was refused, for hist.case *)
Refusal(token, expected_purpose) ==
    IF ~jwt_decode_ok(token, now) THEN "_rejected"
    ELSE IF "purpose" \notin DOMAIN token THEN "_access_token"
    ELSE IF token.purpose # expected_purpose THEN "_wrong_purpose"
    ELSE "_rejected"

(* ---- AuthService.send_verification_email ---- *)
SendVerificationEmail(p, user_id) ==
    /\ Free(p)
    /\ Len(purpose_tokens) < MaxPurposeTokens
    /\ user_id \in DOMAIN users
    /\ ~users[user_id].is_verified
    /\ purpose_tokens' = Mint(create_verification_token(user_id, now))
    /\ hist' = Case("verification_sent")
    /\ resp' = [op |-> "send_verification_email", result |-> Ok(NoAccess, 0)]
    /\ UNCHANGED <<now, ticks, users, credentials, refresh_tokens, pc, loc,
                   decoded, consumed>>

VerifyEmail_toggles(p, i) ==
    /\ Free(p)
    /\ CanOffer(i)
    /\ LET user_id == decode_special_token(Offered(i), "verify", now) IN
       IF user_id \notin DOMAIN users
       THEN /\ users' = users
            /\ hist' = Case("verify" \o Refusal(Offered(i), "verify"))
            /\ resp' = [op |-> "verify_email", result |-> InvalidOrExpiredToken]
       ELSE /\ users' = [users EXCEPT ![user_id].is_verified = ~@]
            /\ hist' = Case(IF users[user_id].is_verified
                            THEN "verified_again" ELSE "verified")
            /\ resp' = [op |-> "verify_email", result |-> Ok(NoAccess, 0)]
    /\ UNCHANGED <<now, ticks, credentials, refresh_tokens, pc, loc,
                   decoded, purpose_tokens, consumed>>

(* ---- AuthService.verify_email ---- *)
VerifyEmail(p, i) ==
    /\ Free(p)
    /\ CanOffer(i)
    /\ LET user_id == decode_special_token(Offered(i), "verify", now) IN
       IF user_id \notin DOMAIN users
       THEN /\ users' = users
            /\ hist' = Case("verify" \o Refusal(Offered(i), "verify"))
            /\ resp' = [op |-> "verify_email", result |-> InvalidOrExpiredToken]
       ELSE /\ users' = [users EXCEPT ![user_id].is_verified = TRUE]
            /\ hist' = Case(IF users[user_id].is_verified
                            THEN "verified_again" ELSE "verified")
            /\ resp' = [op |-> "verify_email", result |-> Ok(NoAccess, 0)]
    /\ UNCHANGED <<now, ticks, credentials, refresh_tokens, pc, loc,
                   decoded, purpose_tokens, consumed>>

ConfirmPasswordReset_reusable(p, i, new_password, salt) ==
    /\ Free(p)
    /\ CanOffer(i)
    /\ LET user_id == decode_special_token(Offered(i), "reset", now)
           c == _get_local_credential(user_id) IN
       /\ user_id \in DOMAIN users
       /\ c # 0
       /\ credentials' = [credentials EXCEPT ![c].hashed_password =
                             hash_password(new_password, salt)]
       /\ refresh_tokens' = revoke_all_user_tokens(user_id)
       /\ hist' = [hist EXCEPT !.password[user_id] = new_password,
                               !.case = "reset_confirmed"]
    /\ resp' = [op |-> "confirm_password_reset", result |-> Ok(NoAccess, 0)]
    /\ UNCHANGED <<now, ticks, users, pc, loc, decoded, purpose_tokens, consumed>>

(* ---- AuthService.confirm_password_reset ---- *)
(* verify_purpose, the single use of the token, the new hash on the  *)
(* LOCAL credential and revoke_all_user_tokens, committed together;  *)
(* new_password is the one the router found equal to its confirm     *)
ConfirmPasswordReset(p, i, new_password, salt) ==
    /\ Free(p)
    /\ CanOffer(i)
    /\ LET token == Offered(i)
           user_id == decode_special_token(token, "reset", now)
           c == _get_local_credential(user_id) IN
       IF user_id \notin DOMAIN users \/ c = 0 \/ token \in consumed
       THEN /\ UNCHANGED <<credentials, refresh_tokens, consumed>>
            /\ hist' = Case(IF token \in consumed THEN "reset_replayed"
                            ELSE "reset" \o Refusal(token, "reset"))
            /\ resp' = [op |-> "confirm_password_reset",
                        result |-> InvalidOrExpiredToken]
       ELSE /\ credentials' = [credentials EXCEPT ![c].hashed_password =
                                  hash_password(new_password, salt)]
            /\ refresh_tokens' = revoke_all_user_tokens(user_id)
            /\ consumed' = consumed \cup {token}
            /\ hist' = [hist EXCEPT
                           !.password[user_id] = new_password,
                           !.revoked = [k \in DOMAIN @ |->
                               IF hist.owner[k] = user_id
                               THEN First(@[k], "reset") ELSE @[k]],
                           !.case = "reset_confirmed"]
            /\ resp' = [op |-> "confirm_password_reset",
                        result |-> Ok(NoAccess, 0)]
    /\ UNCHANGED <<now, ticks, users, pc, loc, decoded, purpose_tokens>>

(* ---- utils/security.py verify_password, called with any digest ---- *)
VerifyPassword(plain_password, hashed_password) ==
    /\ LET early == pwd_context_verify_early(hashed_password)
           outcome == IF early = "ValueError" THEN Raised(early)
                      ELSE IF early = "False" THEN Returned("False")
                      ELSE IF verify_password(plain_password, hashed_password)
                      THEN Returned("True")
                      ELSE Returned("False") IN
       /\ resp' = [op |-> "verify_password", result |-> outcome]
       /\ hist' = Case(IF early = "" THEN "password_checked"
                       ELSE "password_malformed_digest")
    /\ UNCHANGED <<now, ticks, users, credentials, refresh_tokens, pc, loc,
                   decoded, purpose_tokens, consumed>>

(* ---- utils/security.py validate_password_strength ---- *)
(* a password is the sequence of its characters; str.isupper,        *)
(* str.islower and str.isdigit on the characters the inputs are made *)
(* of                                                                *)
isupper(c) == c \in {"A", "Z"}
islower(c) == c \in {"a", "z"}
isdigit(c) == c \in {"0", "9"}

MIN_PASSWORD_LENGTH == 8

ErrorTooShort == "La contrasena debe tener al menos 8 caracteres"
ErrorNoUpper == "La contrasena debe contener al menos una mayuscula"
ErrorNoLower == "La contrasena debe contener al menos una minuscula"
ErrorNoDigit == "La contrasena debe contener al menos un numero"

validate_password_strength_shorter(password) ==
    LET e1 == IF Len(password) < MIN_PASSWORD_LENGTH - 1
              THEN <<ErrorTooShort>> ELSE <<>>
        e2 == IF ~\E i \in DOMAIN password : isupper(password[i])
              THEN Append(e1, ErrorNoUpper) ELSE e1
        e3 == IF ~\E i \in DOMAIN password : islower(password[i])
              THEN Append(e2, ErrorNoLower) ELSE e2
        errors == IF ~\E i \in DOMAIN password : isdigit(password[i])
                  THEN Append(e3, ErrorNoDigit) ELSE e3 IN
    <<Len(errors) = 0, errors>>

(* errors, appended to rule by rule, and whether it stayed empty *)
validate_password_strength(password) ==
    LET e1 == IF Len(password) < MIN_PASSWORD_LENGTH
              THEN <<ErrorTooShort>> ELSE <<>>
        e2 == IF ~\E i \in DOMAIN password : isupper(password[i])
              THEN Append(e1, ErrorNoUpper) ELSE e1
        e3 == IF ~\E i \in DOMAIN password : islower(password[i])
              THEN Append(e2, ErrorNoLower) ELSE e2
        errors == IF ~\E i \in DOMAIN password : isdigit(password[i])
                  THEN Append(e3, ErrorNoDigit) ELSE e3 IN
    <<Len(errors) = 0, errors>>

(* the passwords validated: every choice of PrefixLen characters out of *)
(* an upper-case letter, a lower-case letter, a digit and a sign,       *)
(* followed by signs up to a length below, at and above the minimum    *)
PrefixLen == 3
PasswordChars == {"A", "a", "9", "!"}
RECURSIVE Signs(_)
Signs(n) == IF n = 0 THEN <<>> ELSE <<"!">> \o Signs(n - 1)
StrengthPasswords ==
    {prefix \o Signs(n) :
        prefix \in [1..PrefixLen -> PasswordChars],
        n \in {0, MIN_PASSWORD_LENGTH - PrefixLen - 1,
               MIN_PASSWORD_LENGTH - PrefixLen,
               MIN_PASSWORD_LENGTH - PrefixLen + 1}}

ValidatePasswordStrength(password) ==
    /\ resp' = [op |-> "validate_password_strength", password |-> password,
                result |-> Returned(validate_password_strength(password))]
    /\ hist' = Case("password_strength")
    /\ UNCHANGED <<now, ticks, users, credentials, refresh_tokens, pc, loc,
                   decoded, purpose_tokens, consumed>>

(* ---- utils/dependencies.py ---- *)
credentials_exception == HTTPException(401, "No se pudo validar las credenciales")

(* get_current_user: the user row of the token's sub, returned as its *)
(* id, or credentials_exception raised                                *)
get_current_user(token, t, utc_offset) ==
    LET token_data == decode_access_token(token, t, utc_offset) IN
    IF token_data = NoTokenData THEN credentials_exception
    ELSE IF UUID(token_data.sub) \notin DOMAIN users THEN credentials_exception
    ELSE Returned(users[UUID(token_data.sub)].id)

get_current_user_optional_propagates(supplied, token, t, utc_offset) ==
    IF ~supplied THEN Returned(0)
    ELSE get_current_user(token, t, utc_offset)

(* get_current_user_optional: None, written 0, without a token and when *)
(* get_current_user raised an HTTPException                             *)
get_current_user_optional(supplied, token, t, utc_offset) ==
    IF ~supplied THEN Returned(0)
    ELSE LET outcome == get_current_user(token, t, utc_offset) IN
         IF outcome.status # 0 THEN Returned(0) ELSE outcome

GetCurrentUserOptional(supplied, i) ==
    /\ CanOffer(i)
    /\ \E utc_offset \in UtcOffsets :
          resp' = [op |-> "get_current_user_optional",
                   result |-> get_current_user_optional(supplied, Offered(i),
                                                        now, utc_offset)]
    /\ hist' = Case(IF ~supplied THEN "optional_no_token"
                    ELSE IF get_current_user(Offered(i), now, 0).status # 0
                    THEN "optional_rejected" ELSE "optional_user")
    /\ UNCHANGED <<now, ticks, users, credentials, refresh_tokens, pc, loc,
                   decoded, purpose_tokens, consumed>>

(* ---------------- specifications ---------------- *)
Next ==
    \/ Tick
    \/ \E p \in Procs, e \in RegEmails, pw \in RegPasswords, pwc \in Passwords,
          s \in Salts : RegisterStart(p, e, pw, pwc, s)
    \/ \E p \in Procs : RegisterCommit(p)
    \/ \E p \in Procs, e \in Emails, pw \in Passwords : LoginStart(p, e, pw)
    \/ \E p \in Procs : LoginCredential(p)
    \/ \E p \in Procs : LoginFailed(p)
    \/ \E p \in Procs : LoginSucceeded(p)
    \/ \E p \in Procs : LoginIssue(p)
    \/ \E p \in Procs, t \in TokenIds : RefreshStart(p, t)
    \/ \E p \in Procs : RefreshRevoke(p)
    \/ \E p \in Procs : RefreshIssue(p)
    \/ \E p \in Procs : RefreshAccount(p)
    \/ \E p \in Procs, t \in TokenIds : Logout(p, t)
    \/ \E p \in Procs, u \in UserIds : RevokeAll(p, u)
    \/ \E i \in OfferIds : DecodeAccess(i)
    \/ \E u \in UserIds : Deactivate(u)
    \/ \E p \in Procs, e \in Emails, d \in BOOLEAN : RequestPasswordReset(p, e, d)
    \/ \E p \in Procs, u \in UserIds : SendVerificationEmail(p, u)
    \/ \E p \in Procs, i \in OfferIds : VerifyEmail(p, i)
    \/ \E p \in Procs, i \in OfferIds, pw \in ResetPasswords, s \in Salts :
          ConfirmPasswordReset(p, i, pw, s)

Spec == Init /\ [][Next]_vars

AllIdle == \A p \in Procs : Idle(p)

(* login alone, one request at a time: a request starts only when no *)
(* other is running                                                  *)
NextSeq ==
    \/ Tick
    \/ \E p \in Procs, e \in RegEmails, pw \in RegPasswords, pwc \in Passwords,
          s \in Salts : AllIdle /\ RegisterStart(p, e, pw, pwc, s)
    \/ \E p \in Procs : RegisterCommit(p)
    \/ \E p \in Procs, e \in Emails, pw \in Passwords :
          AllIdle /\ LoginStart(p, e, pw)
    \/ \E p \in Procs : LoginCredential(p)
    \/ \E p \in Procs : LoginFailed(p)
    \/ \E p \in Procs : LoginSucceeded(p)
    \/ \E p \in Procs : LoginIssue(p)

SpecSeq == Init /\ [][NextSeq]_vars

(* minting and decoding of access tokens: logins that present the *)
(* registered password, one at a time, and decode_access_token    *)
NextJwt ==
    \/ Tick
    \/ \E p \in Procs, e \in RegEmails, pw \in RegPasswords, pwc \in Passwords,
          s \in Salts : AllIdle /\ RegisterStart(p, e, pw, pwc, s)
    \/ \E p \in Procs : RegisterCommit(p)
    \/ \E p \in Procs, e \in Emails, pw \in RegPasswords :
          AllIdle /\ LoginStart(p, e, pw)
    \/ \E p \in Procs : LoginCredential(p)
    \/ \E p \in Procs : LoginSucceeded(p)
    \/ \E p \in Procs : LoginIssue(p)
    \/ \E i \in {0} : DecodeAccess(i)

SpecJwt == Init /\ [][NextJwt]_vars

(* the token lifecycle alone, requests running concurrently: every login *)
(* presents the registered password, so no login fails on its password   *)
NextTok ==
    \/ Tick
    \/ \E p \in Procs, e \in RegEmails, pw \in RegPasswords, pwc \in Passwords,
          s \in Salts : RegisterStart(p, e, pw, pwc, s)
    \/ \E p \in Procs : RegisterCommit(p)
    \/ \E p \in Procs, e \in Emails, pw \in RegPasswords : LoginStart(p, e, pw)
    \/ \E p \in Procs : LoginCredential(p)
    \/ \E p \in Procs : LoginSucceeded(p)
    \/ \E p \in Procs : LoginIssue(p)
    \/ \E p \in Procs, t \in TokenIds : RefreshStart(p, t)
    \/ \E p \in Procs : RefreshRevoke(p)
    \/ \E p \in Procs : RefreshIssue(p)
    \/ \E p \in Procs : RefreshAccount(p)
    \/ \E p \in Procs, t \in TokenIds : Logout(p, t)
    \/ \E p \in Procs, u \in UserIds : RevokeAll(p, u)

SpecTok == Init /\ [][NextTok]_vars

(* login and refresh while accounts are deactivated, requests running *)
(* concurrently                                                       *)
NextInactive ==
    \/ Tick
    \/ \E p \in Procs, e \in RegEmails, pw \in RegPasswords, pwc \in Passwords,
          s \in Salts : RegisterStart(p, e, pw, pwc, s)
    \/ \E p \in Procs : RegisterCommit(p)
    \/ \E p \in Procs, e \in RegEmails, pw \in RegPasswords : LoginStart(p, e, pw)
    \/ \E p \in Procs : LoginCredential(p)
    \/ \E p \in Procs : LoginSucceeded(p)
    \/ \E p \in Procs : LoginIssue(p)
    \/ \E p \in Procs, t \in TokenIds : RefreshStart(p, t)
    \/ \E p \in Procs : RefreshRevoke(p)
    \/ \E p \in Procs : RefreshIssue(p)
    \/ \E p \in Procs : RefreshAccount(p)
    \/ \E u \in UserIds : Deactivate(u)

SpecInactive == Init /\ [][NextInactive]_vars

(* login alone, requests running concurrently *)
NextLogin ==
    \/ Tick
    \/ \E p \in Procs, e \in RegEmails, pw \in RegPasswords, pwc \in Passwords,
          s \in Salts : RegisterStart(p, e, pw, pwc, s)
    \/ \E p \in Procs : RegisterCommit(p)
    \/ \E p \in Procs, e \in Emails, pw \in Passwords : LoginStart(p, e, pw)
    \/ \E p \in Procs : LoginCredential(p)
    \/ \E p \in Procs : LoginFailed(p)
    \/ \E p \in Procs : LoginSucceeded(p)
    \/ \E p \in Procs : LoginIssue(p)

SpecLogin == Init /\ [][NextLogin]_vars

(* registration alone, requests running concurrently, each email going *)
(* through the EmailStr field of UserRegister                          *)
NextReg ==
    \/ Tick
    \/ \E p \in Procs, raw \in RawEmails, pw \in RegPasswords, pwc \in Passwords,
          s \in Salts : RegisterStart(p, EmailStr(raw), pw, pwc, s)
    \/ \E p \in Procs : RegisterCommit(p)

SpecReg == Init /\ [][NextReg]_vars

(* a client that knows the password of the account it names *)
KnowsPassword(email, password) ==
    \E u \in DOMAIN users : users[u].email = email /\ hist.password[u] = password

(* password reset next to login and the refresh-token lifecycle, one *)
(* request at a time; logins present the password the account has   *)
NextReset ==
    \/ TickPurpose
    \/ \E p \in Procs, e \in RegEmails, pw \in RegPasswords, pwc \in Passwords,
          s \in Salts : AllIdle /\ RegisterStart(p, e, pw, pwc, s)
    \/ \E p \in Procs : RegisterCommit(p)
    \/ \E p \in Procs, e \in RegEmails, pw \in RegPasswords \cup ResetPasswords :
          AllIdle /\ KnowsPassword(e, pw) /\ LoginStart(p, e, pw)
    \/ \E p \in Procs : LoginCredential(p)
    \/ \E p \in Procs : LoginSucceeded(p)
    \/ \E p \in Procs : LoginIssue(p)
    \/ \E p \in Procs, t \in TokenIds : AllIdle /\ RefreshStart(p, t)
    \/ \E p \in Procs : RefreshRevoke(p)
    \/ \E p \in Procs : RefreshIssue(p)
    \/ \E p \in Procs : RefreshAccount(p)
    \/ \E p \in Procs, e \in Emails, d \in BOOLEAN :
          AllIdle /\ RequestPasswordReset(p, e, d)
    \/ \E p \in Procs, i \in OfferIds, pw \in ResetPasswords, s \in Salts :
          AllIdle /\ ConfirmPasswordReset(p, i, pw, s)

SpecReset == Init /\ [][NextReset]_vars

(* the purpose tokens: verify and reset tokens, the operations that   *)
(* mint and decode them, and logins with the password the account has *)
(* for the access token, one request at a time                        *)
NextSigned ==
    \/ TickPurpose
    \/ \E p \in Procs, e \in RegEmails, pw \in RegPasswords, pwc \in Passwords,
          s \in Salts : AllIdle /\ RegisterStart(p, e, pw, pwc, s)
    \/ \E p \in Procs : RegisterCommit(p)
    \/ \E p \in Procs, e \in RegEmails, pw \in RegPasswords \cup NewPasswords :
          AllIdle /\ KnowsPassword(e, pw) /\ LoginStart(p, e, pw)
    \/ \E p \in Procs : LoginCredential(p)
    \/ \E p \in Procs : LoginSucceeded(p)
    \/ \E p \in Procs : LoginIssue(p)
    \/ \E p \in Procs, e \in RegEmails, d \in BOOLEAN :
          AllIdle /\ RequestPasswordReset(p, e, d)
    \/ \E p \in Procs, u \in UserIds : AllIdle /\ SendVerificationEmail(p, u)
    \/ \E p \in Procs, i \in OfferIds : AllIdle /\ VerifyEmail(p, i)
    \/ \E p \in Procs, i \in OfferIds, pw \in NewPasswords, s \in Salts :
          AllIdle /\ ConfirmPasswordReset(p, i, pw, s)

SpecSigned == Init /\ [][NextSigned]_vars

(* the access token against the purpose tokens: decode_access_token on *)
(* every signed token a client can hold, and the access token minted   *)
(* last presented where a purpose token is expected                    *)
NextAccess ==
    \/ TickPurpose
    \/ \E p \in Procs, e \in RegEmails, pw \in RegPasswords, pwc \in Passwords,
          s \in Salts : AllIdle /\ RegisterStart(p, e, pw, pwc, s)
    \/ \E p \in Procs : RegisterCommit(p)
    \/ \E p \in Procs, e \in RegEmails, pw \in RegPasswords :
          AllIdle /\ LoginStart(p, e, pw)
    \/ \E p \in Procs : LoginCredential(p)
    \/ \E p \in Procs : LoginSucceeded(p)
    \/ \E p \in Procs : LoginIssue(p)
    \/ \E i \in OfferIds : DecodeAccess(i)
    \/ \E p \in Procs, e \in RegEmails, d \in BOOLEAN :
          AllIdle /\ RequestPasswordReset(p, e, d)
    \/ \E p \in Procs, u \in UserIds : AllIdle /\ SendVerificationEmail(p, u)
    \/ \E p \in Procs, i \in {0} : AllIdle /\ VerifyEmail(p, i)
    \/ \E p \in Procs, i \in {0}, pw \in NewPasswords, s \in Salts :
          AllIdle /\ ConfirmPasswordReset(p, i, pw, s)

SpecAccess == Init /\ [][NextAccess]_vars

(* the access token minted last while the refresh tokens and the *)
(* password of its account are revoked and reset, one request at *)
(* a time                                                        *)
NextFrame ==
    \/ TickAccess
    \/ \E p \in Procs, e \in RegEmails, pw \in RegPasswords, pwc \in Passwords,
          s \in Salts : AllIdle /\ RegisterStart(p, e, pw, pwc, s)
    \/ \E p \in Procs : RegisterCommit(p)
    \/ \E p \in Procs, e \in RegEmails, pw \in RegPasswords \cup NewPasswords :
          AllIdle /\ KnowsPassword(e, pw) /\ LoginStart(p, e, pw)
    \/ \E p \in Procs : LoginCredential(p)
    \/ \E p \in Procs : LoginSucceeded(p)
    \/ \E p \in Procs : LoginIssue(p)
    \/ \E p \in Procs, t \in TokenIds : AllIdle /\ Logout(p, t)
    \/ \E p \in Procs, u \in UserIds : AllIdle /\ RevokeAll(p, u)
    \/ \E p \in Procs, e \in RegEmails, d \in BOOLEAN :
          AllIdle /\ RequestPasswordReset(p, e, d)
    \/ \E p \in Procs, i \in OfferIds, pw \in NewPasswords, s \in Salts :
          AllIdle /\ ConfirmPasswordReset(p, i, pw, s)

SpecFrame == Init /\ [][NextFrame]_vars

(* register and login with passwords of every length the schemas let *)
(* through, one request at a time                                    *)
NextHash ==
    \/ Tick
    \/ \E p \in Procs, e \in RegEmails, pw \in RegPasswords \cup LongPasswords,
          pwc \in Passwords \cup LongPasswords, s \in Salts :
          AllIdle /\ RegisterStart(p, e, pw, pwc, s)
    \/ \E p \in Procs : RegisterCommit(p)
    \/ \E p \in Procs, e \in Emails, pw \in Passwords \cup LongPasswords :
          AllIdle /\ LoginStart(p, e, pw)
    \/ \E p \in Procs : LoginCredential(p)
    \/ \E p \in Procs : LoginFailed(p)
    \/ \E p \in Procs : LoginSucceeded(p)
    \/ \E p \in Procs : LoginIssue(p)
    \/ \E plain \in Passwords \cup LongPasswords,
          hashed \in MalformedDigests
                     \cup {hash_password(pw, s) : pw \in RegPasswords \cup LongPasswords,
                                                  s \in Salts} :
          AllIdle /\ VerifyPassword(plain, hashed)

SpecHash == Init /\ [][NextHash]_vars

(* refresh tokens issued by logins and revoked one by one, requests *)
(* running concurrently                                             *)
NextRevoke ==
    \/ Tick
    \/ \E p \in Procs, e \in RegEmails, pw \in RegPasswords, pwc \in Passwords,
          s \in Salts : RegisterStart(p, e, pw, pwc, s)
    \/ \E p \in Procs : RegisterCommit(p)
    \/ \E p \in Procs, e \in RegEmails, pw \in RegPasswords : LoginStart(p, e, pw)
    \/ \E p \in Procs : LoginCredential(p)
    \/ \E p \in Procs : LoginSucceeded(p)
    \/ \E p \in Procs : LoginIssue(p)
    \/ \E p \in Procs, t \in TokenIds : Logout(p, t)
    \/ \E p \in Procs, t \in TokenIds : RevokeRefreshToken(p, t)

SpecRevoke == Init /\ [][NextRevoke]_vars

(* accounts with and without a LOCAL credential, and logins against *)
(* them, one request at a time                                      *)
NextLocal ==
    \/ Tick
    \/ \E p \in Procs, e \in RegEmails, pw \in RegPasswords, pwc \in Passwords,
          s \in Salts : AllIdle /\ RegisterStart(p, e, pw, pwc, s)
    \/ \E p \in Procs : RegisterCommit(p)
    \/ \E p \in Procs, e \in Emails, pr \in OAuthProviders :
          AllIdle /\ OAuthRegister(p, e, pr)
    \/ \E p \in Procs, e \in Emails, pw \in Passwords :
          AllIdle /\ LoginStart(p, e, pw)
    \/ \E p \in Procs : LoginCredential(p)
    \/ \E p \in Procs : LoginFailed(p)
    \/ \E p \in Procs : LoginSucceeded(p)
    \/ \E p \in Procs : LoginIssue(p)

SpecLocal == Init /\ [][NextLocal]_vars

(* validate_password_strength on its own, one call after another *)
NextStrength ==
    \E password \in StrengthPasswords : ValidatePasswordStrength(password)

SpecStrength == Init /\ [][NextStrength]_vars

(* the optional dependency on every signed token a client can hold, or *)
(* on none, next to the logins and reset requests that mint them, one  *)
(* request at a time                                                   *)
NextOptional ==
    \/ TickAccess
    \/ \E p \in Procs, e \in RegEmails, pw \in RegPasswords, pwc \in Passwords,
          s \in Salts : AllIdle /\ RegisterStart(p, e, pw, pwc, s)
    \/ \E p \in Procs : RegisterCommit(p)
    \/ \E p \in Procs, e \in RegEmails, pw \in RegPasswords :
          AllIdle /\ KnowsPassword(e, pw) /\ LoginStart(p, e, pw)
    \/ \E p \in Procs : LoginCredential(p)
    \/ \E p \in Procs : LoginSucceeded(p)
    \/ \E p \in Procs : LoginIssue(p)
    \/ \E p \in Procs, e \in RegEmails, d \in BOOLEAN :
          AllIdle /\ RequestPasswordReset(p, e, d)
    \/ \E supplied \in BOOLEAN, i \in OfferIds :
          AllIdle /\ GetCurrentUserOptional(supplied, i)

SpecOptional == Init /\ [][NextOptional]_vars

TypeOK ==
    /\ now \in Nat
    /\ ticks \in 0..MaxTicks
    /\ Len(users) <= Cardinality(RegEmails) + Cardinality(RawEmails)
    /\ Len(refresh_tokens) <= MaxTokens

(* ======================= properties ======================= *)
Tokens == DOMAIN refresh_tokens

(* C1: after MAX_LOGIN_ATTEMPTS wrong-password logins in a row against   *)
(* an account, a login attempt made before LOGIN_LOCKOUT_MINUTES have    *)
(* passed since the last of them is answered AccountLocked, whatever     *)
(* password it presents, and inserts no refresh token.                   *)
C1_LockedAfterMaxAttempts ==
    [][\A p \in Procs, e \in Emails, pw \in Passwords :
         LET u == _get_user_by_email(e) IN
         (/\ u # 0
          /\ hist.fails[u] >= MAX_LOGIN_ATTEMPTS
          /\ now < hist.lockedAt[u] + LOGIN_LOCKOUT_MINUTES
          /\ LoginStart(p, e, pw))
         => /\ resp' = [op |-> "login", result |-> AccountLocked]
            /\ resp'.result.refresh = 0
            /\ resp'.result.access = NoAccess
            /\ pc'[p] = "idle"
            /\ refresh_tokens' = refresh_tokens]_vars

C1_Witness ==
    /\ hist.case = "locked_right_password"
    /\ resp = [op |-> "login", result |-> AccountLocked]
    /\ \E u \in DOMAIN users :
          /\ hist.fails[u] >= MAX_LOGIN_ATTEMPTS
          /\ now < hist.lockedAt[u] + LOGIN_LOCKOUT_MINUTES

(* C2: once LOGIN_LOCKOUT_MINUTES have passed since an account was      *)
(* locked, a login with the registered password is not rejected, takes  *)
(* the success branch, leaves failed_login_attempts = 0 and             *)
(* locked_until = None, and is answered 200 with both tokens.           *)
C2_UnlockedAfterLockout ==
    [][\A p \in Procs :
         /\ \A e \in Emails, pw \in Passwords :
               LET u == _get_user_by_email(e) IN
               (/\ u # 0
                /\ hist.fails[u] >= MAX_LOGIN_ATTEMPTS
                /\ now >= hist.lockedAt[u] + LOGIN_LOCKOUT_MINUTES
                /\ LoginStart(p, e, pw))
               => /\ pc'[p] = "login_cred"
                  /\ loc'[p].locked # NONE
         /\ (/\ pc[p] = "login_cred" /\ pc'[p] # "login_cred"
             /\ loc[p].locked # NONE
             /\ loc[p].password = hist.password[loc[p].user])
            => pc'[p] = "login_ok"
         /\ (pc[p] = "login_ok" /\ pc'[p] # "login_ok" /\ loc[p].locked # NONE)
            => /\ pc'[p] = "login_issue"
               /\ users'[loc[p].user].failed_login_attempts = 0
               /\ users'[loc[p].user].locked_until = NONE
         /\ (pc[p] = "login_issue" /\ pc'[p] # "login_issue" /\ loc[p].locked # NONE)
            => /\ resp'.op = "login"
               /\ resp'.result.status = 200
               /\ resp'.result.access.type = "access"
               /\ resp'.result.refresh \in DOMAIN refresh_tokens'
               /\ users'[loc[p].user].failed_login_attempts = 0
               /\ users'[loc[p].user].locked_until = NONE]_vars

C2_Witness ==
    /\ hist.case = "login_ok_after_lock"
    /\ resp.op = "login" /\ resp.result.status = 200
    /\ \E u \in DOMAIN users :
          /\ hist.lockedAt[u] # NONE
          /\ now >= hist.lockedAt[u] + LOGIN_LOCKOUT_MINUTES
          /\ users[u].failed_login_attempts = 0
          /\ users[u].locked_until = NONE

(* C3: of two refreshes presenting the same refresh token at most one   *)
(* obtains a replacement: no token is rotated twice.                    *)
C3_RotatedAtMostOnce ==
    \A t \in Tokens : Cardinality({k \in Tokens : hist.parent[k] = t}) <= 1

(* C4: once a refresh has rotated token T, validate_refresh_token(T) is  *)
(* None ever after and a refresh presenting T is answered                *)
(* InvalidOrExpiredToken, while the replacement, when it is issued,     *)
(* validates to the account T belonged to.                              *)
Rotated(t) == \E k \in DOMAIN hist.parent : hist.parent[k] = t

C5_RevokeAllInvalidates ==
    [][/\ \A p \in Procs, u \in DOMAIN users :
             RevokeAll(p, u)
             => \A k \in Tokens :
                   hist.owner[k] = u => validate_refresh_token(k, now)' = 0
       /\ \A k \in Tokens' :
             hist'.revoked[k] = "all" => validate_refresh_token(k, now)' = 0]_vars

C5_Witness ==
    /\ resp.op = "revoke_all"
    /\ \E k \in Tokens :
          /\ hist.revoked[k] = "all"
          /\ now < hist.issuedAt[k] + RefreshTTL
          /\ hist.parent[k] # 0
          /\ validate_refresh_token(k, now) = 0

(* C6: a failed login raises failed_login_attempts by one over the value *)
(* the row has when the failure is written: no increment is lost.       *)
C6_NoLostIncrement ==
    [][\A p \in Procs :
         LoginFailed(p)
         => users'[loc[p].user].failed_login_attempts
               = users[loc[p].user].failed_login_attempts + 1]_vars

(* C7: a login naming an email without account and a login with a wrong *)
(* password for an existing, unlocked account get the same response,    *)
(* InvalidCredentials.                                                  *)
C7_SameFailure ==
    /\ hist.case = "no_user"
       => resp = [op |-> "login", result |-> LoginWrongPassword]
    /\ hist.case = "wrong_password"
       => resp = [op |-> "login", result |-> LoginUserNotFound]
    /\ hist.case \in {"no_user", "wrong_password"}
       => resp.result = InvalidCredentials

C7_Witness ==
    /\ hist.case = "wrong_password"
    /\ resp.result = InvalidCredentials
    /\ \E u \in DOMAIN users :
          users[u].failed_login_attempts \in 1 .. MAX_LOGIN_ATTEMPTS - 1

C9_ValidateExact ==
    \A t \in {0} \cup Tokens :
       validate_refresh_token(t, now)
          = IF /\ t \in Tokens
               /\ hist.revoked[t] = ""
               /\ now < hist.issuedAt[t] + RefreshTTL
            THEN hist.owner[t]
            ELSE 0

C9_Witness ==
    \E t \in Tokens :
       /\ hist.revoked[t] = ""
       /\ refresh_tokens[t].revoked = FALSE
       /\ now >= hist.issuedAt[t] + RefreshTTL
       /\ validate_refresh_token(t, now) = 0

(* C10: once logout(T) has run for a refresh token T a login returned,  *)
(* validate_refresh_token(T) is None ever after and a refresh           *)
(* presenting T is answered InvalidOrExpiredToken.                      *)
C10_LogoutRevokes ==
    [][/\ \A t \in Tokens' :
             hist'.revoked[t] = "logout" => validate_refresh_token(t, now)' = 0
       /\ \A p \in Procs, t \in Tokens :
             (hist.revoked[t] = "logout" /\ RefreshStart(p, t))
             => /\ resp' = [op |-> "refresh", result |-> InvalidOrExpiredToken]
                /\ pc'[p] = "idle"
                /\ refresh_tokens' = refresh_tokens]_vars

C10_Witness ==
    /\ hist.case = "bad_token"
    /\ resp = [op |-> "refresh", result |-> InvalidOrExpiredToken]
    /\ \E t \in Tokens :
          /\ hist.revoked[t] = "logout"
          /\ hist.parent[t] = 0
          /\ now < hist.issuedAt[t] + RefreshTTL

(* C11: logout answers with the same success whether the token is live, *)
(* already revoked or unknown; on a live token it changes that row's    *)
(* revoked flag to True and nothing else, and on a token that is        *)
(* already revoked (a second logout) or unknown it leaves the table of  *)
(* refresh tokens as it is.                                             *)
C11_LogoutIdempotent ==
    [][\A p \in Procs, t \in TokenIds :
         Logout(p, t)
         => /\ resp' = [op |-> "logout", result |-> Ok(NoAccess, 0)]
            /\ (t \notin Tokens \/ refresh_tokens[t].revoked)
                  => refresh_tokens' = refresh_tokens
            /\ (t \in Tokens /\ ~refresh_tokens[t].revoked)
                  => refresh_tokens' =
                        [refresh_tokens EXCEPT ![t].revoked = TRUE]]_vars

C11_Witness ==
    /\ hist.case = "logout_again"
    /\ resp = [op |-> "logout", result |-> Ok(NoAccess, 0)]
    /\ \E t \in Tokens :
          /\ hist.revoked[t] = "logout"
          /\ refresh_tokens[t].revoked
          /\ now < hist.issuedAt[t] + RefreshTTL

(* C12: a registration whose email, lower-cased and trimmed, equals the *)
(* lower-cased and trimmed email of an existing account is answered     *)
(* DuplicateAccount and inserts no user and no credential; no two       *)
(* accounts have the same lower-cased and trimmed email.                *)
normalize(email) == lower(strip(email))

C12_DuplicateRejected ==
    [][/\ \A p \in Procs, raw \in RawEmails, pw \in RegPasswords,
             pwc \in Passwords, s \in Salts :
             (/\ \E u \in DOMAIN users :
                    normalize(users[u].email) = normalize(raw)
              /\ RegisterStart(p, EmailStr(raw), pw, pwc, s))
             => /\ resp' = [op |-> "register", result |-> DuplicateAccount]
                /\ pc'[p] = "idle"
                /\ users' = users /\ credentials' = credentials
       /\ \A i, j \in DOMAIN users' :
             normalize(users'[i].email) = normalize(users'[j].email) => i = j]_vars
C14_InactiveRefreshFails ==
    [][\A p \in Procs :
          RefreshAccount(p) =>
             LET u == loc[p].user IN
             /\ hist.owner[loc[p].token] = u
             /\ IF ~users[u].is_active
                THEN /\ resp' = [op |-> "refresh", result |-> AccountInactive]
                     /\ resp'.result.access = NoAccess
                     /\ resp'.result.refresh = 0
                     /\ hist'.access = hist.access
                ELSE /\ resp'.result.status = 200
                     /\ resp'.result.access.type = "access"
                     /\ resp'.result.refresh = loc[p].newtoken
      ]_vars

C14_Witness ==
    /\ hist.case = "inactive"
    /\ resp = [op |-> "refresh", result |-> AccountInactive]
    /\ \E u \in DOMAIN users :
          /\ ~users[u].is_active
          /\ \E k \in DOMAIN refresh_tokens :
                /\ hist.owner[k] = u
                /\ hist.revoked[k] = "rotate"
                /\ now < hist.issuedAt[k] + RefreshTTL

(* C15: requestPasswordReset answers the same generic success whether or  *)
(* not an account has the email and whether or not the notification was   *)
(* delivered. When no account has the email no token is minted and no     *)
(* table changes; when one has it a reset token for that account is       *)
(* handed out.                                                            *)
C15_ResetRequestGeneric ==
    [][\A p \in Procs, e \in Emails, d \in BOOLEAN :
          RequestPasswordReset(p, e, d) =>
             /\ resp' = [op |-> "request_password_reset",
                         result |-> ResetRequested]
             /\ <<users, credentials, refresh_tokens, consumed>>'
                   = <<users, credentials, refresh_tokens, consumed>>
             /\ IF \A u \in DOMAIN users : users[u].email # e
                THEN purpose_tokens' = purpose_tokens
                ELSE \E u \in DOMAIN users :
                        /\ users[u].email = e
                        /\ create_reset_token(u, now) \in Range(purpose_tokens')
      ]_vars

C15_Witness ==
    /\ hist.case = "reset_no_user"
    /\ resp = [op |-> "request_password_reset", result |-> ResetRequested]
    /\ users # <<>>
    /\ \E i \in DOMAIN purpose_tokens : purpose_tokens[i].purpose = "reset"

(* C16: when confirmPasswordReset succeeds for account A, the LOCAL        *)
(* credential of A holds the hash of the new password, and every refresh  *)
(* token issued to A before is revoked: from then on it fails validation  *)
(* and a refresh that presents it fails with InvalidOrExpiredToken and    *)
(* issues nothing.                                                        *)
C16_ResetSetsHashAndRevokes ==
    /\ [][\A p \in Procs, i \in OfferIds, pw \in ResetPasswords, sa \in Salts :
            ( ConfirmPasswordReset(p, i, pw, sa) /\ resp'.result.status = 200 ) =>
               LET A == decode_special_token(Offered(i), "reset", now)
                   c == _get_local_credential(A) IN
               /\ A \in DOMAIN users
               /\ credentials'[c].hashed_password = hash_password(pw, sa)
               /\ verify_password(pw, credentials'[c].hashed_password)
               /\ \A k \in DOMAIN refresh_tokens :
                     hist.owner[k] = A =>
                        /\ refresh_tokens'[k].revoked
                        /\ hist'.revoked[k] # ""
       ]_vars
    /\ [](\A k \in DOMAIN refresh_tokens :
            hist.revoked[k] = "reset" => validate_refresh_token(k, now) = 0)
    /\ [][\A p \in Procs, k \in TokenIds :
            ( /\ k \in DOMAIN refresh_tokens
              /\ hist.revoked[k] = "reset"
              /\ RefreshStart(p, k) ) =>
               /\ resp' = [op |-> "refresh", result |-> InvalidOrExpiredToken]
               /\ refresh_tokens' = refresh_tokens
       ]_vars

C16_Witness ==
    /\ hist.case = "bad_token"
    /\ resp = [op |-> "refresh", result |-> InvalidOrExpiredToken]
    /\ \E A \in DOMAIN users :
          /\ hist.password[A] \in ResetPasswords
          /\ verify_password(hist.password[A],
                  credentials[_get_local_credential(A)].hashed_password)
          /\ Cardinality({k \in DOMAIN refresh_tokens :
                  /\ hist.owner[k] = A
                  /\ hist.revoked[k] = "reset"
                  /\ now < hist.issuedAt[k] + RefreshTTL}) >= 2

(* C17: a reset token is single use. Once confirmPasswordReset has        *)
(* succeeded with token R, every later confirmPasswordReset that presents *)
(* R fails with InvalidOrExpiredToken and leaves the credential and the   *)
(* refresh tokens as they are, also while R has not expired.              *)
C17_ResetTokenSingleUse ==
    /\ [][\A p \in Procs, i \in OfferIds, pw \in ResetPasswords, sa \in Salts :
            ConfirmPasswordReset(p, i, pw, sa) =>
               IF Offered(i) \in consumed
               THEN /\ resp' = [op |-> "confirm_password_reset",
                                result |-> InvalidOrExpiredToken]
                    /\ credentials' = credentials
                    /\ refresh_tokens' = refresh_tokens
                    /\ hist'.password = hist.password
               ELSE resp'.result.status = 200 => Offered(i) \in consumed'
       ]_vars
    /\ [][consumed \subseteq consumed']_vars

C17_Witness ==
    /\ hist.case = "reset_replayed"
    /\ resp = [op |-> "confirm_password_reset", result |-> InvalidOrExpiredToken]
    /\ \E R \in consumed :
          /\ jwt_decode_ok(R, now)
          /\ R.purpose = "reset"
          /\ now < R.exp
          /\ hist.password[R.sub[2]] \in ResetPasswords

(* C18: verify_purpose fails on a purpose mismatch. A signed, unexpired    *)
(* token whose purpose is not the expected one decodes to nothing: a      *)
(* verify token is never accepted by confirmPasswordReset and a reset     *)
(* token is never accepted by verifyEmail, and neither request changes    *)
(* any stored state.                                                      *)
C18_PurposeMismatchFails ==
    /\ [](\A i \in DOMAIN purpose_tokens, purpose \in {"verify", "reset"} :
            purpose_tokens[i].purpose # purpose =>
               decode_special_token(purpose_tokens[i], purpose, now) = 0)
    /\ [][\A p \in Procs, i \in DOMAIN purpose_tokens :
            /\ \A pw \in NewPasswords, sa \in Salts :
                  ( /\ purpose_tokens[i].purpose = "verify"
                    /\ ConfirmPasswordReset(p, i, pw, sa) ) =>
                     /\ resp' = [op |-> "confirm_password_reset",
                                 result |-> InvalidOrExpiredToken]
                     /\ <<users, credentials, refresh_tokens, consumed>>'
                           = <<users, credentials, refresh_tokens, consumed>>
            /\ ( /\ purpose_tokens[i].purpose = "reset"
                 /\ VerifyEmail(p, i) ) =>
                  /\ resp' = [op |-> "verify_email",
                              result |-> InvalidOrExpiredToken]
                  /\ <<users, credentials, refresh_tokens, consumed>>'
                        = <<users, credentials, refresh_tokens, consumed>>
       ]_vars

C18_Witness ==
    /\ hist.case = "reset_wrong_purpose"
    /\ resp = [op |-> "confirm_password_reset", result |-> InvalidOrExpiredToken]
    /\ \E i, j \in DOMAIN purpose_tokens :
          /\ purpose_tokens[i].purpose = "verify"
          /\ purpose_tokens[j].purpose = "reset"
          /\ jwt_decode_ok(purpose_tokens[i], now)
          /\ jwt_decode_ok(purpose_tokens[j], now)
          /\ purpose_tokens[j] \notin consumed
    /\ \A u \in DOMAIN users : ~users[u].is_verified

(* C19: verify_access fails when the type of the token is not "access".  *)
(* A signed, unexpired purpose token is never accepted as an access      *)
(* token, and an access token is never accepted where a purpose token is *)
(* expected: verifyEmail and confirmPasswordReset refuse it and change   *)
(* nothing.                                                              *)
C19_TypeMismatchFails ==
    /\ [][\A i \in OfferIds :
            ( /\ DecodeAccess(i)
              /\ PayloadGet(Offered(i), "type", "None") # "access" ) =>
               decoded'.token_data = NoTokenData
       ]_vars
    /\ [](hist.access.id # 0 =>
            \A purpose \in {"verify", "reset"} :
               decode_special_token(hist.access.token, purpose, now) = 0)
    /\ [][\A p \in Procs :
            ( /\ hist.access.id # 0
              /\ \/ VerifyEmail(p, 0)
                 \/ \E pw \in NewPasswords, sa \in Salts :
                       ConfirmPasswordReset(p, 0, pw, sa) ) =>
               /\ resp'.result = InvalidOrExpiredToken
               /\ <<users, credentials, refresh_tokens, consumed>>'
                     = <<users, credentials, refresh_tokens, consumed>>
       ]_vars

C19_Witness ==
    /\ decoded.called
    /\ decoded.token \in Range(purpose_tokens)
    /\ jwt_decode_ok(decoded.token, now)
    /\ decoded.token_data = NoTokenData
    /\ hist.case \in {"verify_access_token", "reset_access_token"}
    /\ jwt_decode_ok(hist.access.token, now)

(* C20: the refresh-token store holds only the hash of a token. The row   *)
(* of every token holds hash_token of its plaintext, a digest and not the *)
(* plaintext, and rows are told apart by it; the plaintext leaves the     *)
(* service in one response only, the one of the request that issued the   *)
(* token, and in no response when that request failed on the account      *)
(* check.                                                                 *)
Responds(p) == pc[p] # "idle" /\ pc'[p] = "idle"

C21_AccessTokenFrame ==
    /\ [][\A p \in Procs :
            ( \/ \E t \in TokenIds : Logout(p, t)
              \/ \E u \in UserIds : RevokeAll(p, u)
              \/ \E i \in OfferIds, pw \in NewPasswords, sa \in Salts :
                    ConfirmPasswordReset(p, i, pw, sa) ) =>
               \A off \in UtcOffsets :
                  decode_access_token(hist.access.token, now, off)'
                     = decode_access_token(hist.access.token, now, off)
       ]_vars
    /\ [](hist.access.id # 0 =>
            \A off \in UtcOffsets :
               IF now <= hist.access.token.exp
               THEN decode_access_token(hist.access.token, now, off).sub
                       = <<"str", hist.access.id>>
               ELSE decode_access_token(hist.access.token, now, off)
                       = NoTokenData)

C21_Witness ==
    /\ hist.access.id \in DOMAIN users
    /\ now = hist.access.token.exp
    /\ \A off \in UtcOffsets :
          decode_access_token(hist.access.token, now, off).sub
             = <<"str", hist.access.id>>
    /\ hist.password[hist.access.id] \in NewPasswords
    /\ \E j, k \in DOMAIN refresh_tokens :
          /\ hist.revoked[j] = "logout"
          /\ hist.revoked[k] = "all"
    /\ \A k \in DOMAIN refresh_tokens : refresh_tokens[k].revoked
    /\ hist.case = "reset_confirmed"

(* C22: verify(P2, hash(P)) is true when P2 = P and false when P2 differs *)
(* from P: the credential check of a login passes exactly when the        *)
(* password presented is the password the account was registered with.    *)
C22_VerifyExact ==
    [][\A p \in Procs :
          ( LoginCredential(p) /\ _get_local_credential(loc[p].user) # 0 ) =>
             LET c == _get_local_credential(loc[p].user)
                 P == hist.password[loc[p].user]
                 P2 == loc[p].password IN
             /\ \E sa \in Salts :
                   credentials[c].hashed_password = hash_password(P, sa)
             /\ verify_password(P2, credentials[c].hashed_password) <=> P2 = P
             /\ pc'[p] = "login_ok" <=> P2 = P
      ]_vars

(* C23: verify(plaintext, digest) returns false, and never raises, when   *)
(* digest is malformed, that is, not a digest produced by hash.            *)
C23_MalformedDigestIsFalse ==
    [][\A plain \in Passwords \cup LongPasswords, hashed \in MalformedDigests :
          VerifyPassword(plain, hashed) =>
             resp' = [op |-> "verify_password", result |-> Returned("False")]
      ]_vars

(* C24: revoke(t) returns true exactly when a live token for t, stored,   *)
(* not revoked and not expired, was found and revoked by this call; it    *)
(* returns false for an unknown token and for one already revoked.        *)
C24_RevokeReturn ==
    [][\A p \in Procs, t \in TokenIds :
          RevokeRefreshToken(p, t) =>
             LET live == /\ t \in DOMAIN refresh_tokens
                         /\ ~refresh_tokens[t].revoked
                         /\ refresh_tokens[t].expires_at > now IN
             /\ resp'.result = Returned("True") <=> live
             /\ resp'.result = Returned("False") <=> ~live
             /\ live => refresh_tokens'[t].revoked
      ]_vars

(* C25: a login against an account that has no LOCAL credential fails    *)
(* with InvalidCredentials, the answer an unknown email gets, issues no   *)
(* token and writes nothing; such an account is never locked, so the      *)
(* login always reaches that answer.                                      *)
C25_NoLocalCredential ==
    /\ [][\A p \in Procs :
            ( LoginCredential(p) /\ _get_local_credential(loc[p].user) = 0 ) =>
               /\ resp' = [op |-> "login", result |-> LoginUserNotFound]
               /\ resp'.result = InvalidCredentials
               /\ pc'[p] = "idle"
               /\ <<users, credentials, refresh_tokens>>'
                     = <<users, credentials, refresh_tokens>>
       ]_vars
    /\ [][\A p \in Procs, e \in Emails, pw \in Passwords :
            ( /\ LoginStart(p, e, pw)
              /\ _get_user_by_email(e) # 0
              /\ _get_local_credential(_get_user_by_email(e)) = 0 ) =>
               pc'[p] = "login_cred"
       ]_vars
    /\ [](\A u \in DOMAIN users :
            _get_local_credential(u) = 0 =>
               /\ users[u].failed_login_attempts = 0
               /\ users[u].locked_until = NONE
               /\ \A k \in DOMAIN refresh_tokens : refresh_tokens[k].user_id # u)

C25_Witness ==
    /\ hist.case = "no_credential"
    /\ resp = [op |-> "login", result |-> InvalidCredentials]
    /\ \E u, v \in DOMAIN users :
          /\ _get_local_credential(u) = 0
          /\ _get_local_credential(v) # 0
          /\ users[v].failed_login_attempts > 0
    /\ refresh_tokens # <<>>

(* C26: in every reachable state an account has at most one credential  *)
(* per provider, in particular exactly one LOCAL credential once it is    *)
(* registered, whatever registrations ran and however they interleaved.   *)
C26_OneCredentialPerProvider ==
    /\ \A i, j \in DOMAIN credentials :
          ( /\ credentials[i].user_id = credentials[j].user_id
            /\ credentials[i].provider = credentials[j].provider ) => i = j
    /\ \A u \in DOMAIN users :
          Cardinality({i \in DOMAIN credentials :
                          /\ credentials[i].user_id = u
                          /\ credentials[i].provider = "local"}) = 1
    /\ \A i \in DOMAIN credentials : credentials[i].user_id \in DOMAIN users

C26_Witness ==
    /\ hist.case = "integrity"
    /\ resp = [op |-> "register", result |-> IntegrityError]
    /\ Len(users) >= 2
    /\ Len(credentials) = Len(users)

C28_LockedIffBeforeDeadline ==
    /\ [][\A p \in Procs, e \in Emails, pw \in Passwords :
            ( LoginStart(p, e, pw) /\ \E u \in DOMAIN users : users[u].email = e ) =>
               LET u == CHOOSE u \in DOMAIN users : users[u].email = e
                   locked == /\ users[u].locked_until # NONE
                             /\ now < users[u].locked_until IN
               /\ locked => /\ resp' = [op |-> "login", result |-> AccountLocked]
                            /\ pc'[p] = "idle"
               /\ ~locked => pc'[p] = "login_cred"
               /\ users' = users
       ]_vars
    /\ [][now' # now => users' = users]_vars

C28_Witness ==
    \E p \in Procs :
       /\ pc[p] = "login_cred"
       /\ users[loc[p].user].locked_until # NONE
       /\ now = users[loc[p].user].locked_until
       /\ users[loc[p].user].failed_login_attempts >= MAX_LOGIN_ATTEMPTS
       /\ hist.case = "locked"

WroteRefreshTokens(p) ==
    /\ pc[p] # "idle"
    /\ loc[p].token \in DOMAIN refresh_tokens
    /\ refresh_tokens[loc[p].token].revoked

WroteCredentialStore(p) ==
    /\ pc[p] # "idle"
    /\ loc[p].user \in DOMAIN users
    /\ \/ users[loc[p].user].failed_login_attempts # loc[p].failed
       \/ users[loc[p].user].locked_until # loc[p].locked

C31_OneWritePerStore ==
    [][\A p \in Procs :
          /\ ( WroteRefreshTokens(p) /\ pc'[p] # pc[p] ) =>
                refresh_tokens' = refresh_tokens
          /\ ( WroteCredentialStore(p) /\ pc'[p] # pc[p] ) =>
                users' = users /\ credentials' = credentials
    ]_vars

(* C32: confirmPasswordReset with a token that fails verification (its   *)
(* signature was not made with the key, its exp has passed, or its        *)
(* purpose is not "reset", an access token included) is answered          *)
(* InvalidOrExpiredToken and leaves every hashed_password and every       *)
(* refresh token of every account as it was.                              *)
FailsVerification(token, purpose) ==
    \/ token.sig # SECRET_KEY
    \/ token.exp < now
    \/ "purpose" \notin DOMAIN token
    \/ token.purpose # purpose

C32_BadResetTokenChangesNothing ==
    [][\A p \in Procs, i \in OfferIds, pw \in NewPasswords, sa \in Salts :
          ( /\ CanOffer(i)
            /\ FailsVerification(Offered(i), "reset")
            /\ ConfirmPasswordReset(p, i, pw, sa) ) =>
             /\ resp' = [op |-> "confirm_password_reset",
                         result |-> InvalidOrExpiredToken]
             /\ credentials' = credentials
             /\ refresh_tokens' = refresh_tokens
             /\ users' = users
             /\ consumed' = consumed
    ]_vars

C32_Witness ==
    /\ hist.case = "reset_rejected"
    /\ resp = [op |-> "confirm_password_reset", result |-> InvalidOrExpiredToken]
    /\ \E i \in DOMAIN purpose_tokens :
          /\ purpose_tokens[i].purpose = "reset"
          /\ purpose_tokens[i].exp < now
          /\ purpose_tokens[i] \notin consumed
    /\ \E k \in DOMAIN refresh_tokens : validate_refresh_token(k, now) # 0
    /\ \A u \in DOMAIN users : hist.password[u] \in RegPasswords

(* C33: validate_password_strength answers (True, []) exactly for the     *)
(* passwords of at least 8 characters that hold an upper-case letter, a   *)
(* lower-case letter and a digit; for every other password it answers     *)
(* False with one message for each rule the password breaks, and no       *)
(* message for a rule it keeps.                                           *)
RulesBroken(password) ==
    {r \in {ErrorTooShort, ErrorNoUpper, ErrorNoLower, ErrorNoDigit} :
        \/ r = ErrorTooShort /\ Len(password) <= 7
        \/ r = ErrorNoUpper /\ \A i \in DOMAIN password : password[i] \notin {"A", "Z"}
        \/ r = ErrorNoLower /\ \A i \in DOMAIN password : password[i] \notin {"a", "z"}
        \/ r = ErrorNoDigit /\ \A i \in DOMAIN password : password[i] \notin {"0", "9"}}

C33_PasswordStrength ==
    resp.op = "validate_password_strength" =>
       LET valid == resp.result.detail[1]
           errors == resp.result.detail[2] IN
       /\ valid <=> RulesBroken(resp.password) = {}
       /\ valid <=> errors = <<>>
       /\ Range(errors) = RulesBroken(resp.password)
       /\ Len(errors) = Cardinality(RulesBroken(resp.password))

C33_Witness ==
    /\ resp.op = "validate_password_strength"
    /\ Len(resp.password) = 7
    /\ resp.result.detail = <<FALSE, <<ErrorTooShort>>>>

(* C34: get_current_user_optional returns None when no token is supplied *)
(* and when get_current_user rejects the token (unsigned, expired, not   *)
(* an access token, or naming no user); it returns the user exactly when *)
(* the token is a signed, unexpired access token of a user, and it never *)
(* answers with an HTTPException.                                        *)
C34_OptionalUser ==
    [][\A supplied \in BOOLEAN, i \in OfferIds :
          GetCurrentUserOptional(supplied, i) =>
             LET token == Offered(i)
                 accepted == /\ supplied
                             /\ token.sig = SECRET_KEY
                             /\ now <= token.exp
                             /\ "type" \in DOMAIN token
                             /\ token.type = "access"
                             /\ token.sub[2] \in DOMAIN users IN
             /\ resp'.result.status = 0
             /\ resp'.result.detail = IF accepted THEN token.sub[2] ELSE 0
             /\ ~supplied => resp'.result = Returned(0)
    ]_vars

C34_Witness ==
    /\ resp = [op |-> "get_current_user_optional", result |-> Returned(0)]
    /\ hist.case = "optional_rejected"
    /\ hist.access.id # 0
    /\ now > hist.access.token.exp

(* C35: the end of a lock does not reset the counter. When the lock of an *)
(* account has run out and no login has succeeded since, the counter is   *)
(* still at MAX_LOGIN_ATTEMPTS or above; one more wrong-password login    *)
(* takes it above MAX_LOGIN_ATTEMPTS and locks the account again at once, *)
(* until LOGIN_LOCKOUT_MINUTES after that failure.                        *)
C35_RelockAfterExpiry ==
    /\ [](\A u \in DOMAIN users :
            ( users[u].locked_until # NONE /\ now >= users[u].locked_until ) =>
               users[u].failed_login_attempts >= MAX_LOGIN_ATTEMPTS)
    /\ [][\A p \in Procs :
            ( /\ LoginFailed(p)
              /\ users[loc[p].user].locked_until # NONE
              /\ now >= users[loc[p].user].locked_until ) =>
               LET u == loc[p].user IN
               /\ users'[u].failed_login_attempts > MAX_LOGIN_ATTEMPTS
               /\ users'[u].locked_until = now + LOGIN_LOCKOUT_MINUTES
               /\ _is_user_locked(users'[u].locked_until, now)
       ]_vars

C35_Witness ==
    \E u \in DOMAIN users :
       /\ hist.case = "wrong_password"
       /\ users[u].failed_login_attempts = MAX_LOGIN_ATTEMPTS + 1
       /\ hist.lockedAt[u] = now
       /\ now >= LOGIN_LOCKOUT_MINUTES
       /\ users[u].locked_until = now + LOGIN_LOCKOUT_MINUTES

(* C36: in every reachable state failed_login_attempts is at least 0 and, *)
(* whenever locked_until is set, at least MAX_LOGIN_ATTEMPTS; locked_until *)
(* goes from unset to set only in the write of a failed login for the     *)
(* account and from set to unset only in the write of a successful login  *)
(* for the account.                                                       *)
C36_LockoutInvariant ==
    /\ [](\A u \in DOMAIN users :
            /\ users[u].failed_login_attempts >= 0
            /\ users[u].locked_until # NONE =>
                  users[u].failed_login_attempts >= MAX_LOGIN_ATTEMPTS)
    /\ [][\A u \in DOMAIN users :
            /\ ( users[u].locked_until = NONE /\ users'[u].locked_until # NONE ) =>
                  \E p \in Procs : LoginFailed(p) /\ loc[p].user = u
            /\ ( users[u].locked_until # NONE /\ users'[u].locked_until = NONE ) =>
                  \E p \in Procs : LoginSucceeded(p) /\ loc[p].user = u
       ]_vars

(* C37: revocation is permanent. No statement of a login, a refresh, a    *)
(* logout, a revoke-all or a password reset sets revoked of a refresh     *)
(* token back to False: a token that is revoked stays revoked and         *)
(* validate_refresh_token is None for it in every later state.            *)
C37_RevokedForever ==
    [][\A k \in Tokens :
          refresh_tokens[k].revoked =>
             /\ k \in Tokens'
             /\ refresh_tokens'[k].revoked
             /\ refresh_tokens'[k].token_hash = refresh_tokens[k].token_hash
             /\ validate_refresh_token(k, now)' = 0
    ]_vars

C37_Witness ==
    \E k, j \in Tokens :
       /\ refresh_tokens[k].revoked
       /\ hist.revoked[k] = "logout"
       /\ j > k
       /\ hist.parent[j] = 0
       /\ hist.case = "bad_token"
       /\ resp = [op |-> "refresh", result |-> InvalidOrExpiredToken]
       /\ validate_refresh_token(k, now) = 0

(* C38: one login yields one session chain. Of the refresh token a login  *)
(* issued and the tokens that descend from it by refreshes, at most one   *)
(* validates at any time, however the refreshes interleave.               *)
RECURSIVE LoginOf(_)
LoginOf(k) == IF hist.parent[k] = 0 THEN k ELSE LoginOf(hist.parent[k])

C38_OneSessionChain ==
    \A r \in Tokens :
       hist.parent[r] = 0 =>
          Cardinality({k \in Tokens : /\ LoginOf(k) = r
                                      /\ validate_refresh_token(k, now) # 0}) <= 1

(* C39: a refresh that fails with AccountInactive leaves behind no valid  *)
(* refresh token that it created: the replacement its rotation inserted   *)
(* before the account check does not validate once the call has ended.    *)
C39_InactiveRefreshLeavesNoToken ==
    [][\A p \in Procs :
          ( RefreshAccount(p) /\ ~users[loc[p].user].is_active ) =>
             LET k == loc[p].newtoken IN
             /\ resp' = [op |-> "refresh", result |-> AccountInactive]
             /\ k \in Tokens' =>
                   \/ refresh_tokens'[k].revoked
                   \/ refresh_tokens'[k].expires_at <= now'
    ]_vars

(* C40: RefreshToken.is_valid and validate_refresh_token agree on every   *)
(* row at every time: is_valid is true exactly when the query of          *)
(* validate_refresh_token (revoked == False and expires_at > now) selects *)
(* the row, the instant now = expires_at included.                        *)
C40_IsValidAgrees ==
    \A k \in Tokens :
       is_valid(refresh_tokens[k], now) <=> validate_refresh_token(k, now) # 0

====
